---- MODULE Spec2Model ----
(***************************************************************************)
(* Upload orchestration core of frigate-snap-sync:                         *)
(*   F  SingleRecordingUploadTask  (one review id, alternating clip names)  *)
(*   C  remote_file_op             (multi-destination retry primitive)      *)
(*   G  RecordingsTaskHandler      (routes reviews to F tasks)              *)
(*   E  SnapshotsTaskHandler       (spawns snapshot upload tasks)           *)
(*   H  SyncSystem                 (broker events, camera flags, shutdown)  *)
(* Every await point of the Rust code is a step of the model.              *)
(***************************************************************************)
EXTENDS Integers, Sequences, FiniteSets, TLC

\* ------------------------------------------------------------- bounds ----
MaxClock == 1            \* wall-clock seconds that may elapse (chrono::Local::now)
MaxReviews == 2          \* reviews a test harness sends on a task's channel
MaxTasks == 2            \* recording tasks that G may spawn in one behaviour
MaxRetryAttempts == 1    \* largest configured max_retry_attempts
MaxCmds == 2             \* commands a client puts on G's command channel
MaxSnapshots == 2        \* snapshot tasks that E may spawn
MaxSnapRounds == 2       \* rounds explored of the 128 a snapshot upload may take
MaxMqtt == 3             \* broker events delivered to H
MaxAwaitCmds == 3        \* commands of a client that awaits each answer
MaxValueLen == 2         \* characters in a field of a path descriptor
MaxPathLen == 4          \* components of a path given to the normalizer

\* -------------------------------------------------- program constants ----
MAX_UPLOAD_ATTEMPTS == 3
MAX_DELETE_ATTEMPTS == 5
MAX_ATTEMPT_COUNT == 128
DEFAULT_MAX_RETRY_ATTEMPTS == 60

Ids == {"r1", "r2"}
Cameras == {"c1", "c2"}
Descriptors == <<"A", "B">>
DescNames == {Descriptors[i] : i \in 1..Len(Descriptors)}
Tasks == 1..MaxTasks
Snaps == 1..MaxSnapshots

Min(a, b) == IF a < b THEN a ELSE b

VARIABLES
    clock,      \* wall clock, in seconds (what chrono::Local::now() formats)
    api_calls,  \* api_calls[t]: recording_clip calls made for task t; the n-th returns clip n
    store,      \* store[d][p]: content of file p at destination d
    faults,     \* kinds of failure the environment of this run can produce, of
                \* api_make api_err api_empty make init mkdir put partial exists del
    task,       \* task[t]: fields and position of SingleRecordingUploadTask t
    chan,       \* chan[t]: reviews queued on task t's reviews_receiver
    hist,       \* hist[t]: what task t has done so far (observation only)
    sent,       \* number of reviews the harness has sent
    fs,         \* a call into the file-sender library: its input and its result
    g,          \* RecordingsTaskHandler: fields and position
    g_cmds,     \* G's command channel (command_receiver)
    g_out,      \* acks and task counts G has answered, commands sent so far
    e,          \* SnapshotsTaskHandler: fields and position
    e_cmds,     \* E's command channel (command_receiver)
    e_out,      \* acks and task counts E and its tasks have answered
    snap,       \* snap[s]: position of snapshot upload task s
    snap_store, \* snap_store[d][p]: content of snapshot file p at destination d
    h,          \* SyncSystem: camera flags and position in start()
    stop_chan   \* stop signals queued on H's stop_receiver

\* no library call is under examination
FsOff == [pc |-> "off"]

coreVars == <<clock, api_calls, store, faults, task, chan, hist>>
gVars == <<g, g_cmds, g_out>>
eVars == <<e, e_cmds, e_out, snap, snap_store>>
hVars == <<h, stop_chan>>

\* ------------------------------------------------------------- files -----
\* the reviews of the model come from different cameras
camera_name(id) == IF id = "r1" THEN "c1" ELSE "c2"

\* A clip path "RecordingClip-{camera}-{datetime}{suffix}.mp4": the datetime
\* is the wall clock at the time the name is built, sfx is -0 / -1.
Paths == [camera : Cameras, ts : 0..MaxClock, sfx : {0, 1}]
DummyPath == [camera |-> "c1", ts |-> 0, sfx |-> 0]

\* file content: Absent, Partial (a write that broke off), or n >= 1 for the
\* complete bytes returned by the n-th recording_clip call
Absent == 0
Partial == 0 - 1
IsComplete(c) == c >= 1
EmptyStore == [d \in DescNames |-> [p \in Paths |-> Absent]]

alternative_name_suffix(alternative_upload, flip) ==
    IF alternative_upload # flip THEN 1 ELSE 0

file_name_impl(camera, alternative_upload, alternative, now) ==
    [camera |-> camera, ts |-> now, sfx |-> alternative_name_suffix(alternative_upload, alternative)]

file_name(camera, alternative_upload, now) == file_name_impl(camera, alternative_upload, FALSE, now)

alternative_path(camera, alternative_upload, now) == file_name_impl(camera, alternative_upload, TRUE, now)

\* --------------------------------------------------- upload process ------
NewProc(review, alt) ==
    [state |-> "Start", review |-> review, alternative_upload |-> alt,
     clip |-> 0, alt_path |-> DummyPath]

NoProc == [state |-> "None", review |-> "new", alternative_upload |-> FALSE,
           clip |-> 0, alt_path |-> DummyPath]

\* done (observation only): the destinations at which the operation has
\* returned Ok during this call
NoOp == [kind |-> "none", remaining |-> <<>>, attempt |-> 0, senders |-> <<>>, done |-> {}]

\* remote_file_op entered: all descriptors pending, attempt_number = 0
NewOp(kind) ==
    [kind |-> kind, remaining |-> Descriptors, attempt |-> 0, senders |-> <<>>, done |-> {}]

\* retry_duration: a retry period of one second is configured
retry_duration == 1

MaxAttemptsOf(kind) ==
    CASE kind = "upload" -> MAX_UPLOAD_ATTEMPTS
      [] kind = "delete" -> MAX_DELETE_ATTEMPTS
      [] OTHER -> Min(MAX_ATTEMPT_COUNT, MaxSnapRounds)

\* --------------------------------------------------------- the task ------
UnbornTask ==
    [id |-> "r1", pc |-> "unborn", ctx |-> "none", current_review |-> "new",
     alternative_upload |-> FALSE, retry_attempt |-> 0, max_retry_attempts |-> 0,
     proc |-> NoProc, op |-> NoOp, final_result |-> "NotDone",
     first_resolved |-> FALSE, last_error |-> "none", retry_instant |-> 0]

\* SingleRecordingUploadTask::new
NewTask(id, review, max_retry) ==
    [UnbornTask EXCEPT !.id = id, !.pc = "start", !.current_review = review,
                       !.max_retry_attempts = max_retry]

\* runs: upload-process runs that have returned, last_ok: whether the latest
\* one returned Ok, periods: retry deadlines that have fired, uploaded: the
\* destinations at which the Upload of the current version has succeeded,
\* del_tried: where and on which path DeleteIfExists has acted for it,
\* last_call: the latest operation of remote_file_op on a sender: the
\* destination, whether its init() had succeeded, the results of the two
\* calls (mkdir_p, put_from_memory or file_exists, del_file) and of the whole,
\* looped_at: the time at which the latest upload-process run returned
NoHist == [ok_once |-> FALSE, touched |-> {}, events |-> 0, clean |-> TRUE,
           runs |-> 0, last_ok |-> FALSE, periods |-> 0,
           uploaded |-> {}, del_tried |-> {}, looped_at |-> 0,
           last_call |-> [kind |-> "none", d |-> "none", init_ok |-> TRUE,
                          first |-> "none", second |-> "none", ok |-> FALSE]]

\* on_received_review: replace the review and the upload process
on_received_review(tk, review) ==
    [tk EXCEPT !.current_review = review,
               !.proc = NewProc(review, tk.alternative_upload)]

\* a re-run by the retry timer starts the upload process over
EnterRunFromStart(tk, ctx) ==
    IF ctx = "retry"
    THEN [tk EXCEPT !.pc = "run", !.ctx = ctx, !.op = NoOp, !.proc.state = "Start"]
    ELSE [tk EXCEPT !.pc = "run", !.ctx = ctx,
                    !.op = CASE tk.proc.state = "UploadToStore" -> NewOp("upload")
                             [] tk.proc.state = "DeleteTheAlternative" -> NewOp("delete")
                             [] OTHER -> NoOp]

\* ReviewUpload::run entered in the process's current state
EnterRun(tk, ctx) ==
    [tk EXCEPT !.pc = "run", !.ctx = ctx,
               !.op = CASE tk.proc.state = "UploadToStore" -> NewOp("upload")
                        [] tk.proc.state = "DeleteTheAlternative" -> NewOp("delete")
                        [] OTHER -> NoOp]

\* run_upload, Ok arm: the next upload goes to the alternative file name
FlipAfterOk(alt) == ~alt

\* the deadline is computed once, when the loop is entered
ArmDeadlineOnce(tk, now) ==
    IF tk.retry_instant = 0 THEN [tk EXCEPT !.retry_instant = now + retry_duration] ELSE tk

\* top of the loop: let retry_instant = Instant::now() + self.retry_duration
ArmDeadline(tk, now) == [tk EXCEPT !.retry_instant = now + retry_duration]

\* only a run that returned an error counts as an attempt
AfterRunErrOnly(tk, ok, err) ==
    LET alt == IF ok THEN FlipAfterOk(tk.alternative_upload) ELSE tk.alternative_upload
        base == [tk EXCEPT !.alternative_upload = alt, !.op = NoOp, !.ctx = "none",
                           !.last_error = IF ok THEN "none" ELSE err]
    IN  IF tk.ctx = "first"
        THEN ArmDeadline([base EXCEPT !.pc = "select", !.first_resolved = TRUE,
                                      !.final_result = "NotDone"], clock)
        ELSE IF ok /\ tk.current_review = "end"
             THEN [base EXCEPT !.pc = "ended", !.final_result = "Done"]
             ELSE ArmDeadline([base EXCEPT !.pc = "select", !.final_result = "NotDone",
                                           !.retry_attempt = IF ok THEN tk.retry_attempt
                                                             ELSE tk.retry_attempt + 1],
                              clock)

\* run_upload's match on the result, then the caller's handling of the
\* conclusion in start(): the first review's conclusion is discarded, the
\* select! arms break on Done and count an attempt on NotDone.
AfterRun(tk, ok, err) ==
    LET alt == IF ok THEN FlipAfterOk(tk.alternative_upload) ELSE tk.alternative_upload
        conclusion == IF ok /\ tk.current_review = "end" THEN "Done" ELSE "NotDone"
        base == [tk EXCEPT !.alternative_upload = alt, !.op = NoOp, !.ctx = "none",
                           !.last_error = IF ok THEN "none" ELSE err]
    IN  IF tk.ctx = "first"
        THEN ArmDeadline([base EXCEPT !.pc = "select", !.first_resolved = TRUE,
                                      !.final_result = "NotDone"], clock)
        ELSE IF conclusion = "Done"
             THEN [base EXCEPT !.pc = "ended", !.final_result = "Done"]
             ELSE ArmDeadline([base EXCEPT !.pc = "select", !.final_result = "NotDone",
                                           !.retry_attempt = tk.retry_attempt + 1],
                              clock)

HistAfterRun(hs, ok) ==
    [hs EXCEPT !.ok_once = hs.ok_once \/ ok, !.clean = hs.clean /\ ok,
               !.runs = hs.runs + 1, !.last_ok = ok, !.looped_at = clock]

\* start(): the initial review is handled before the loop
TaskStart(t) ==
    /\ task[t].pc = "start"
    /\ task' = [task EXCEPT ![t] =
                   EnterRun(on_received_review(task[t], task[t].current_review), "first")]
    /\ hist' = [hist EXCEPT ![t].events = 1, ![t].uploaded = {}, ![t].del_tried = {}]
    /\ UNCHANGED <<clock, api_calls, store, faults, chan, sent, fs, gVars, eVars, hVars>>

\* select! arm 1: a review arrives on reviews_receiver
TaskRecv(t) ==
    /\ task[t].pc = "select"
    /\ chan[t] # <<>>
    /\ task' = [task EXCEPT ![t] = EnterRun(on_received_review(task[t], Head(chan[t])), "recv")]
    /\ chan' = [chan EXCEPT ![t] = Tail(chan[t])]
    /\ hist' = [hist EXCEPT ![t].events = hist[t].events + 1,
                            ![t].uploaded = {}, ![t].del_tried = {}]
    /\ UNCHANGED <<clock, api_calls, store, faults, sent, fs, gVars, eVars, hVars>>

\* one attempt more than configured is allowed
BudgetExhaustedLate(tk) == tk.retry_attempt > tk.max_retry_attempts

\* the check made when the retry deadline fires
BudgetExhausted(tk) == tk.retry_attempt >= tk.max_retry_attempts

\* select! arm 2: the retry deadline fires
TaskRetryTimer(t) ==
    /\ task[t].pc = "select"
    /\ IF BudgetExhausted(task[t])
       THEN /\ task' = [task EXCEPT ![t].pc = "ended"]
            /\ hist' = [hist EXCEPT ![t].periods = hist[t].periods + 1]
       ELSE IF task[t].proc.state = "Done"
            THEN /\ task' = [task EXCEPT ![t] = AfterRun([task[t] EXCEPT !.ctx = "retry"], TRUE, "none")]
                 /\ hist' = [hist EXCEPT ![t] = [HistAfterRun(hist[t], TRUE) EXCEPT
                                                   !.periods = hist[t].periods + 1]]
            ELSE /\ task' = [task EXCEPT ![t] = EnterRun(task[t], "retry")]
                 /\ hist' = [hist EXCEPT ![t].periods = hist[t].periods + 1]
    /\ UNCHANGED <<clock, api_calls, store, faults, chan, sent, fs, gVars, eVars, hVars>>

ApiOutcomes ==
    {"clip"} \cup (IF "api_make" \in faults THEN {"make_err"} ELSE {})
             \cup (IF "api_err" \in faults THEN {"clip_err"} ELSE {})
             \cup (IF "api_empty" \in faults THEN {"empty"} ELSE {})

ApiError(out) ==
    CASE out = "make_err" -> "APIConstructionFailed"
      [] out = "clip_err" -> "ClipRetrievalError"
      [] OTHER -> "EmptyVideoReturned"

\* ReviewUpload::run, states Start and GettingVideoFromAPI
RunGetVideo(t) ==
    /\ task[t].pc = "run"
    /\ task[t].proc.state \in {"Start", "GettingVideoFromAPI"}
    /\ \E out \in ApiOutcomes :
         LET tk == [task[t] EXCEPT !.proc.state = "GettingVideoFromAPI"]
         IN  /\ api_calls' = IF out = "make_err" THEN api_calls
                              ELSE [api_calls EXCEPT ![t] = api_calls[t] + 1]
             /\ IF out = "clip"
                THEN /\ task' = [task EXCEPT ![t] =
                                   [tk EXCEPT !.proc.state = "UploadToStore",
                                              !.proc.clip = api_calls[t] + 1,
                                              !.op = NewOp("upload")]]
                     /\ hist' = hist
                ELSE /\ task' = [task EXCEPT ![t] = AfterRun(tk, FALSE, ApiError(out))]
                     /\ hist' = [hist EXCEPT ![t] = HistAfterRun(hist[t], FALSE)]
    /\ UNCHANGED <<clock, store, faults, chan, sent, fs, gVars, eVars, hVars>>

MkOutcomes ==
    {"ok"} \cup (IF "make" \in faults THEN {"make_err"} ELSE {})
           \cup (IF "init" \in faults THEN {"init_err"} ELSE {})

\* the descriptors that could not be instantiated are kept in reverse order
OpenSendersReversed(remaining, mk) ==
    LET pairs == [i \in 1..Len(remaining) |-> [d |-> remaining[i], r |-> mk[i]]]
        opened == SelectSeq(pairs, LAMBDA x : x.r # "make_err")
        failed == SelectSeq(pairs, LAMBDA x : x.r = "make_err")
    IN  [senders |-> [i \in 1..Len(opened) |-> [d |-> opened[i].d, init_ok |-> opened[i].r = "ok"]],
         remaining |-> [i \in 1..Len(failed) |-> failed[Len(failed) + 1 - i].d]]

\* make_file_senders + split_file_senders_and_descriptors: the descriptors
\* that could not be instantiated stay pending; a failed init() is only
\* logged and the sender is used all the same.
OpenSenders(remaining, mk) ==
    LET pairs == [i \in 1..Len(remaining) |-> [d |-> remaining[i], r |-> mk[i]]]
        opened == SelectSeq(pairs, LAMBDA x : x.r # "make_err")
        failed == SelectSeq(pairs, LAMBDA x : x.r = "make_err")
    IN  [senders |-> [i \in 1..Len(opened) |-> [d |-> opened[i].d, init_ok |-> opened[i].r = "ok"]],
         remaining |-> [i \in 1..Len(failed) |-> failed[i].d]]

\* remote_file_op: top of one attempt round
OpRoundBegin(t) ==
    LET op == task[t].op IN
    /\ task[t].pc = "run"
    /\ op.kind \in {"upload", "delete"}
    /\ op.senders = <<>>
    /\ op.remaining # <<>>
    /\ op.attempt < MaxAttemptsOf(op.kind)
    /\ \E mk \in [1..Len(op.remaining) -> MkOutcomes] :
         LET o == OpenSenders(op.remaining, mk)
         IN  /\ task' = [task EXCEPT ![t].op =
                            [op EXCEPT !.senders = o.senders, !.remaining = o.remaining,
                                       !.attempt = IF o.senders = <<>> THEN op.attempt + 1
                                                   ELSE op.attempt]]
             /\ hist' = [hist EXCEPT ![t].clean =
                            hist[t].clean /\ \A i \in 1..Len(op.remaining) : mk[i] = "ok"]
    /\ UNCHANGED <<clock, api_calls, store, faults, chan, sent, fs, gVars, eVars, hVars>>

UploadOutcomes ==
    {"ok"} \cup (IF "mkdir" \in faults THEN {"mkdir_err"} ELSE {})
           \cup (IF "put" \in faults THEN {"put_err"} ELSE {})
           \cup (IF "partial" \in faults THEN {"put_partial"} ELSE {})

\* put_from_memory is called whatever mkdir_p returned
upload_file_innerNoCheck(out) ==
    [mkdir_p |-> IF out = "mkdir_err" THEN "err" ELSE "ok",
     put_from_memory |-> IF out \in {"ok", "mkdir_err"} THEN "ok" ELSE "err",
     ok |-> out \in {"ok", "mkdir_err"}]

\* upload_file_inner: mkdir_p(upload_dir), whose error is returned at once,
\* then put_from_memory(bytes, path), whose result is the result
upload_file_inner(out) ==
    [mkdir_p |-> IF out = "mkdir_err" THEN "err" ELSE "ok",
     put_from_memory |-> CASE out = "mkdir_err" -> "none"
                           [] out = "ok" -> "ok"
                           [] OTHER -> "err",
     ok |-> out = "ok"]

\* The store after upload_file_inner: a put that fails may leave the target
\* truncated (fs::write creates or truncates the file before writing).
StoreAfterUpload(st, d, path, clip, out) ==
    CASE out = "ok" -> [st EXCEPT ![d][path] = clip]
      [] out = "put_partial" -> [st EXCEPT ![d][path] = Partial]
      [] OTHER -> st

ExistsOutcomes == {"ok"} \cup (IF "exists" \in faults THEN {"err"} ELSE {})
DelOutcomes == {"ok"} \cup (IF "del" \in faults THEN {"err"} ELSE {})

\* del_file is called whatever file_exists returned
DeleteSkipsNever(st, d, path, ex) == FALSE

\* delete_file_inner: Ok when file_exists says the file is not there;
\* otherwise (also when file_exists failed) the result of del_file.
DeleteSkips(st, d, path, ex) == ex = "ok" /\ st[d][path] = Absent

DeleteOk(st, d, path, ex, del) ==
    \/ DeleteSkips(st, d, path, ex)
    \/ del = "ok" /\ st[d][path] # Absent

StoreAfterDelete(st, d, path, ex, del) ==
    IF ~DeleteSkips(st, d, path, ex) /\ del = "ok"
    THEN [st EXCEPT ![d][path] = Absent]
    ELSE st

\* a failed destination is not pushed back for the next round
OpAfterSenderNoPush(op, d, ok) ==
    [op EXCEPT !.senders = Tail(op.senders),
               !.done = IF ok THEN op.done \cup {d} ELSE op.done,
               !.attempt = IF Tail(op.senders) = <<>> THEN op.attempt + 1 ELSE op.attempt]

\* a failure ends the round: the senders not yet used wait for the next one
OpAfterSenderBreak(op, d, ok) ==
    IF ok
    THEN [op EXCEPT !.senders = Tail(op.senders),
                    !.done = op.done \cup {d},
                    !.attempt = IF Tail(op.senders) = <<>> THEN op.attempt + 1 ELSE op.attempt]
    ELSE [op EXCEPT !.senders = <<>>,
                    !.remaining = op.remaining \o [i \in 1..Len(op.senders) |-> op.senders[i].d],
                    !.attempt = op.attempt + 1]

\* the for-loop body of remote_file_op for one opened sender
OpAfterSender(op, d, ok) ==
    [op EXCEPT !.senders = Tail(op.senders),
               !.remaining = IF ok THEN op.remaining ELSE Append(op.remaining, d),
               !.done = IF ok THEN op.done \cup {d} ELSE op.done,
               !.attempt = IF Tail(op.senders) = <<>> THEN op.attempt + 1 ELSE op.attempt]

\* remote_file_op returns Ok(()) whatever is left pending
remote_file_op_resultAlwaysOk(op) == [ok |-> TRUE, failed |-> op.remaining]

\* what remote_file_op returns once its rounds are over: Ok(()) when nothing
\* is left pending, else an error that lists remaining_descriptors
remote_file_op_result(op) == [ok |-> op.remaining = <<>>, failed |-> op.remaining]

OpUploadOnSender(t) ==
    LET op == task[t].op
        d == Head(op.senders).d
        path == file_name(camera_name(task[t].id), task[t].proc.alternative_upload, clock)
    IN
    /\ task[t].pc = "run"
    /\ op.kind = "upload"
    /\ op.senders # <<>>
    /\ \E out \in UploadOutcomes :
         LET calls == upload_file_inner(out) IN
         /\ store' = StoreAfterUpload(store, d, path, task[t].proc.clip, out)
         /\ task' = [task EXCEPT ![t].op = OpAfterSender(op, d, calls.ok)]
         /\ hist' = [hist EXCEPT ![t].touched = hist[t].touched \cup {path},
                                 ![t].clean = hist[t].clean /\ out = "ok",
                                 ![t].uploaded = IF calls.ok THEN @ \cup {d} ELSE @,
                                 ![t].last_call =
                                     [kind |-> "upload", d |-> d,
                                      init_ok |-> Head(op.senders).init_ok,
                                      first |-> calls.mkdir_p,
                                      second |-> calls.put_from_memory, ok |-> calls.ok]]
    /\ UNCHANGED <<clock, api_calls, faults, chan, sent, fs, gVars, eVars, hVars>>

OpDeleteOnSender(t) ==
    LET op == task[t].op
        d == Head(op.senders).d
        path == task[t].proc.alt_path
    IN
    /\ task[t].pc = "run"
    /\ op.kind = "delete"
    /\ op.senders # <<>>
    /\ \E ex \in ExistsOutcomes, del \in DelOutcomes :
         /\ store' = StoreAfterDelete(store, d, path, ex, del)
         /\ task' = [task EXCEPT ![t].op = OpAfterSender(op, d, DeleteOk(store, d, path, ex, del))]
         /\ hist' = [hist EXCEPT ![t].touched = hist[t].touched \cup {path},
                                 ![t].clean = hist[t].clean /\ ex = "ok" /\ del = "ok",
                                 ![t].del_tried = @ \cup {[d |-> d, p |-> path]},
                                 ![t].last_call =
                                     [kind |-> "delete", d |-> d,
                                      init_ok |-> Head(op.senders).init_ok,
                                      first |-> ex,
                                      second |-> IF DeleteSkips(store, d, path, ex)
                                                 THEN "none" ELSE del,
                                      ok |-> DeleteOk(store, d, path, ex, del)]]
    /\ UNCHANGED <<clock, api_calls, faults, chan, sent, fs, gVars, eVars, hVars>>

\* remote_file_op returns: Ok iff nothing is left pending.  ReviewUpload::run
\* then moves on (UploadToStore -> DeleteTheAlternative -> Done) or fails.
OpFinish(t) ==
    LET op == task[t].op
        tk == task[t]
        ok == remote_file_op_result(op).ok
    IN
    /\ tk.pc = "run"
    /\ op.kind \in {"upload", "delete"}
    /\ op.senders = <<>>
    /\ ok \/ op.attempt >= MaxAttemptsOf(op.kind)
    /\ CASE op.kind = "upload" /\ ok ->
              /\ task' = [task EXCEPT ![t] =
                            [tk EXCEPT !.proc.state = "DeleteTheAlternative",
                                       !.proc.alt_path =
                                           alternative_path(camera_name(tk.id), tk.proc.alternative_upload, clock),
                                       !.op = NewOp("delete")]]
              /\ hist' = hist
         [] op.kind = "upload" /\ ~ok ->
              /\ task' = [task EXCEPT ![t] = AfterRun(tk, FALSE, "DeletingAltFile")]
              /\ hist' = [hist EXCEPT ![t] = HistAfterRun(hist[t], FALSE)]
         [] op.kind = "delete" /\ ok ->
              /\ task' = [task EXCEPT ![t] = AfterRun([tk EXCEPT !.proc.state = "Done"], TRUE, "none")]
              /\ hist' = [hist EXCEPT ![t] = HistAfterRun(hist[t], TRUE)]
         [] OTHER ->
              /\ task' = [task EXCEPT ![t] = AfterRun(tk, FALSE, "RecordingUpload")]
              /\ hist' = [hist EXCEPT ![t] = HistAfterRun(hist[t], FALSE)]
    /\ UNCHANGED <<clock, api_calls, store, faults, chan, sent, fs, gVars, eVars, hVars>>

TaskStep(t) ==
    \/ TaskStart(t)
    \/ TaskRecv(t)
    \/ TaskRetryTimer(t)
    \/ RunGetVideo(t)
    \/ OpRoundBegin(t)
    \/ OpUploadOnSender(t)
    \/ OpDeleteOnSender(t)
    \/ OpFinish(t)

\* one second of wall-clock time passes
Tick ==
    /\ clock < MaxClock
    /\ clock' = clock + 1
    /\ UNCHANGED <<api_calls, store, faults, task, chan, hist, sent, fs, gVars, eVars, hVars>>

\* ------------------------------------------- a task driven by a harness --
\* The task tests construct one task with a New review and send the later
\* reviews of the same id on its channel.
HarnessSend(t) ==
    /\ task[t].pc \notin {"unborn", "ended"}
    /\ sent < MaxReviews
    /\ \E ty \in {"update", "end"} :
         chan' = [chan EXCEPT ![t] = Append(chan[t], ty)]
    /\ sent' = sent + 1
    /\ UNCHANGED <<clock, api_calls, store, faults, task, hist, fs, gVars, eVars, hVars>>

\* ------------------------------------------- G: RecordingsTaskHandler ----
NoCmd == [kind |-> "None", id |-> "r1", type |-> "new", confirm |-> FALSE, n |-> 0]

GInit ==
    [pc |-> "loop", stopped |-> FALSE, running_tasks |-> {},
     tasks_communicators |-> [i \in Ids |-> 0],
     awaiting |-> 0, pending |-> NoCmd, max_retry_attempts_on_task |-> 0]

\* reviews_sent[i]: Task commands for review id i the client has sent;
\* end_acked: the tasks that were tracked when an End review was routed to
\* them and its ack signalled
GOutInit == [acks |-> {}, counts |-> {}, sent |-> 0, reviews_sent |-> [i \in Ids |-> 0],
             end_acked |-> {}]

FreshTask == CHOOSE t \in Tasks : task[t].pc = "unborn" /\ \A u \in 1..(t - 1) : task[u].pc # "unborn"

\* the while condition of run()
LoopContinues(stopped) == ~stopped

AfterHandler(gg) == [gg EXCEPT !.pc = IF LoopContinues(gg.stopped) THEN "loop" ELSE "returned"]

\* sender.send((review, None)).expect(..): the send fails when the task has
\* returned and dropped its receiver, and the expect then panics
ReceiverAlive(t) == task[t].pc # "ended"

\* the ack is signalled although nothing was put on the task's channel
GRouteAckOnly(gg, cmd) ==
    /\ g' = AfterHandler([gg EXCEPT !.pending = NoCmd, !.awaiting = 0])
    /\ g_out' = [g_out EXCEPT !.acks = IF cmd.confirm THEN g_out.acks \cup {cmd.n}
                                       ELSE g_out.acks]
    /\ UNCHANGED chan

\* register_review_update after the map lookup succeeded, then the ack
GRoute(gg, cmd) ==
    LET t == gg.tasks_communicators[cmd.id] IN
    IF ReceiverAlive(t)
    THEN /\ chan' = [chan EXCEPT ![t] = Append(chan[t], cmd.type)]
         /\ g' = AfterHandler([gg EXCEPT !.pending = NoCmd, !.awaiting = 0])
         /\ g_out' = [g_out EXCEPT !.acks = IF cmd.confirm THEN g_out.acks \cup {cmd.n}
                                                      ELSE g_out.acks,
                                   !.end_acked = IF cmd.confirm /\ cmd.type = "end" /\ gg.pc = "loop"
                                                 THEN @ \cup {t} ELSE @]
    ELSE /\ g' = [gg EXCEPT !.pc = "panicked", !.pending = NoCmd, !.awaiting = 0]
         /\ UNCHANGED <<chan, g_out>>

\* Command Stop
GCommandStop ==
    /\ g.pc = "loop"
    /\ g_cmds # <<>>
    /\ Head(g_cmds).kind = "Stop"
    /\ g_cmds' = Tail(g_cmds)
    /\ g' = IF g.running_tasks = {}
            THEN [g EXCEPT !.stopped = TRUE, !.pc = "returned"]   \* break
            ELSE AfterHandler([g EXCEPT !.stopped = TRUE])
    /\ UNCHANGED <<coreVars, sent, fs, g_out, eVars, hVars>>

ContainsKey(map, id) == map[id] # 0

\* Command Task for an id that has no entry: launch_upload_task spawns the
\* task and awaits first_resolve_receiver
GCommandTaskNew ==
    /\ g.pc = "loop"
    /\ g_cmds # <<>>
    /\ Head(g_cmds).kind = "Task"
    /\ ~ContainsKey(g.tasks_communicators, Head(g_cmds).id)
    /\ \E t \in Tasks : task[t].pc = "unborn"
    /\ g_cmds' = Tail(g_cmds)
    /\ task' = [task EXCEPT ![FreshTask] =
                   NewTask(Head(g_cmds).id, Head(g_cmds).type, g.max_retry_attempts_on_task)]
    /\ g' = [g EXCEPT !.pc = "await_first", !.awaiting = FreshTask, !.pending = Head(g_cmds)]
    /\ UNCHANGED <<clock, api_calls, store, faults, chan, hist, sent, fs, g_out, eVars, hVars>>

\* the handle and the sender are registered without awaiting the signal
GFirstResolvedNoWait ==
    /\ g.pc = "await_first"
    /\ GRoute([g EXCEPT !.running_tasks = g.running_tasks \cup {g.awaiting},
                        !.tasks_communicators[g.pending.id] = g.awaiting],
              g.pending)
    /\ UNCHANGED <<clock, api_calls, store, faults, task, hist, sent, fs, g_cmds, eVars, hVars>>

\* launch_upload_task resumes: push the handle, insert the sender, then
\* register_review_update sends the review and run() signals the ack
GFirstResolved ==
    /\ g.pc = "await_first"
    /\ task[g.awaiting].first_resolved
    /\ GRoute([g EXCEPT !.running_tasks = g.running_tasks \cup {g.awaiting},
                        !.tasks_communicators[g.pending.id] = g.awaiting],
              g.pending)
    /\ UNCHANGED <<clock, api_calls, store, faults, task, hist, sent, fs, g_cmds, eVars, hVars>>

\* Command Task for an id found in the map
GCommandTaskKnown ==
    /\ g.pc = "loop"
    /\ g_cmds # <<>>
    /\ Head(g_cmds).kind = "Task"
    /\ ContainsKey(g.tasks_communicators, Head(g_cmds).id)
    /\ g_cmds' = Tail(g_cmds)
    /\ GRoute(g, Head(g_cmds))
    /\ UNCHANGED <<clock, api_calls, store, faults, task, hist, sent, fs, eVars, hVars>>

\* Command GetTaskCount
GCommandGetTaskCount ==
    /\ g.pc = "loop"
    /\ g_cmds # <<>>
    /\ Head(g_cmds).kind = "GetTaskCount"
    /\ g_cmds' = Tail(g_cmds)
    /\ g_out' = [g_out EXCEPT !.counts =
                    g_out.counts \cup {<<Head(g_cmds).n, Cardinality(g.running_tasks)>>}]
    /\ g' = AfterHandler(g)
    /\ UNCHANGED <<coreVars, sent, fs, eVars, hVars>>

MapAfterJoinMutant(map, id) == map

\* on_task_joined, Ok(id): tasks_communicators.remove(&id)
MapAfterJoin(map, id) == [map EXCEPT ![id] = 0]

\* select! arm 2 of run(): a join handle of running_tasks is ready
GJoin(t) ==
    /\ g.pc = "loop"
    /\ t \in g.running_tasks
    /\ task[t].pc = "ended"
    /\ LET rest == g.running_tasks \ {t} IN
       IF ContainsKey(g.tasks_communicators, task[t].id)
       THEN g' = IF rest = {} /\ g.stopped
                 THEN [g EXCEPT !.running_tasks = rest, !.pc = "returned",
                                !.tasks_communicators = MapAfterJoin(@, task[t].id)]
                 ELSE AfterHandler([g EXCEPT !.running_tasks = rest,
                                             !.tasks_communicators = MapAfterJoin(@, task[t].id)])
       ELSE g' = [g EXCEPT !.running_tasks = rest, !.pc = "panicked"]
    /\ UNCHANGED <<coreVars, sent, fs, g_cmds, g_out, eVars, hVars>>

GStep ==
    \/ GCommandStop
    \/ GCommandTaskNew
    \/ GFirstResolved
    \/ GCommandTaskKnown
    \/ GCommandGetTaskCount
    \/ \E t \in Tasks : GJoin(t)

\* a client of G (H, or the handler tests) puts a command on the channel
ClientSend ==
    /\ g_out.sent < MaxCmds
    /\ \E c \in [kind : {"Task"}, id : Ids, type : {"new", "end"}, confirm : {TRUE},
                  n : {g_out.sent + 1}]
             \cup [kind : {"GetTaskCount", "Stop"}, id : {"r1"}, type : {"new"},
                   confirm : {FALSE}, n : {g_out.sent + 1}] :
         /\ g_cmds' = Append(g_cmds, c)
         /\ g_out' = [g_out EXCEPT !.sent = g_out.sent + 1,
                                   !.reviews_sent[c.id] = IF c.kind = "Task" THEN @ + 1 ELSE @]
    /\ UNCHANGED <<coreVars, sent, fs, g, eVars, hVars>>

\* ------------------------------------------- snapshot upload tasks -------
\* A snapshot path "Snapshot-{camera}-{datetime}-{object}.jpg"
SnapPaths == [camera : Cameras, ts : 0..MaxClock]
EmptySnapStore == [d \in DescNames |-> [p \in SnapPaths |-> Absent]]

\* Snapshot::make_file_name
make_file_name(camera, now) == [camera |-> camera, ts |-> now]

\* result, failed, succeeded (observation only): what remote_file_op returned
\* to the task, which logs it
UnbornSnap ==
    [pc |-> "unborn", camera |-> "c1", confirm |-> 0, op |-> NoOp, result |-> "none",
     failed |-> <<>>, succeeded |-> {}]

\* the confirmation sender is not moved into the future
NewSnapNoConfirm(camera, confirm) ==
    [UnbornSnap EXCEPT !.pc = "spawned", !.camera = camera]

\* the future spawned by launch_snapshot_upload_task, not yet polled
NewSnap(camera, confirm) ==
    [UnbornSnap EXCEPT !.pc = "spawned", !.camera = camera, !.confirm = confirm]

\* SnapshotUploadTask::run enters remote_file_op(Upload, .., MAX_ATTEMPT_COUNT)
SnapStart(s) ==
    /\ snap[s].pc = "spawned"
    /\ snap' = [snap EXCEPT ![s].pc = "run", ![s].op = NewOp("snapshot")]
    /\ UNCHANGED <<coreVars, sent, fs, gVars, e, e_cmds, e_out, snap_store, hVars>>

\* remote_file_op for a snapshot: top of one attempt round
SnapRoundBegin(s) ==
    LET op == snap[s].op IN
    /\ snap[s].pc = "run"
    /\ op.senders = <<>>
    /\ op.remaining # <<>>
    /\ op.attempt < MaxAttemptsOf(op.kind)
    /\ \E mk \in [1..Len(op.remaining) -> MkOutcomes] :
         LET o == OpenSenders(op.remaining, mk)
         IN  snap' = [snap EXCEPT ![s].op =
                         [op EXCEPT !.senders = o.senders, !.remaining = o.remaining,
                                    !.attempt = IF o.senders = <<>> THEN op.attempt + 1
                                                ELSE op.attempt]]
    /\ UNCHANGED <<coreVars, sent, fs, gVars, e, e_cmds, e_out, snap_store, hVars>>

\* upload_file_inner on one opened sender; the file name is built per call
SnapUploadOnSender(s) ==
    LET op == snap[s].op
        d == Head(op.senders).d
        path == make_file_name(snap[s].camera, clock)
    IN
    /\ snap[s].pc = "run"
    /\ op.senders # <<>>
    /\ \E out \in UploadOutcomes :
         /\ snap_store' = StoreAfterUpload(snap_store, d, path, s, out)
         /\ snap' = [snap EXCEPT ![s].op = OpAfterSender(op, d, upload_file_inner(out).ok)]
    /\ UNCHANGED <<coreVars, sent, fs, gVars, e, e_cmds, e_out, hVars>>

\* remote_file_op returns (its result is only logged), the confirmation is
\* signalled when one was given, and the spawned future completes
SnapFinish(s) ==
    LET op == snap[s].op IN
    /\ snap[s].pc = "run"
    /\ op.senders = <<>>
    /\ op.remaining = <<>> \/ op.attempt >= MaxAttemptsOf(op.kind)
    /\ snap' = [snap EXCEPT ![s].pc = "ended", ![s].op = NoOp,
                            ![s].result = IF remote_file_op_result(op).ok THEN "ok" ELSE "err",
                            ![s].failed = remote_file_op_result(op).failed,
                            ![s].succeeded = op.done]
    /\ e_out' = [e_out EXCEPT !.acks = IF snap[s].confirm # 0 THEN @ \cup {snap[s].confirm}
                                       ELSE @]
    /\ UNCHANGED <<coreVars, sent, fs, gVars, e, e_cmds, snap_store, hVars>>

SnapStep(s) ==
    \/ SnapStart(s)
    \/ SnapRoundBegin(s)
    \/ SnapUploadOnSender(s)
    \/ SnapFinish(s)

\* ------------------------------------------- E: SnapshotsTaskHandler -----
EInit == [pc |-> "loop", stopped |-> FALSE, running_tasks |-> {}]

\* unfinished_at_stop: the tasks still running when Stop was dequeued
\* (observation only)
EOutInit == [acks |-> {}, counts |-> {}, sent |-> 0, unfinished_at_stop |-> {}]

FreshSnap == CHOOSE s \in Snaps : snap[s].pc = "unborn" /\ \A u \in 1..(s - 1) : snap[u].pc # "unborn"

\* the loop goes on whatever the flag says
EAfterHandlerKeepLoop(ee) == [ee EXCEPT !.pc = "loop"]

\* the while condition of run(); after the loop the remaining tasks are wrapped
EAfterHandler(ee) == [ee EXCEPT !.pc = IF ~ee.stopped THEN "loop" ELSE "drain"]

\* Command Stop
ECommandStop ==
    /\ e.pc = "loop"
    /\ e_cmds # <<>>
    /\ Head(e_cmds).kind = "Stop"
    /\ e_cmds' = Tail(e_cmds)
    /\ e' = EAfterHandler([e EXCEPT !.stopped = TRUE])
    /\ e_out' = [e_out EXCEPT !.unfinished_at_stop =
                    {s \in e.running_tasks : snap[s].pc # "ended"}]
    /\ UNCHANGED <<coreVars, sent, fs, gVars, snap, snap_store, hVars>>

\* Command Task: launch_snapshot_upload_task spawns and pushes the handle
ECommandTask ==
    /\ e.pc = "loop"
    /\ e_cmds # <<>>
    /\ Head(e_cmds).kind = "Task"
    /\ \E s \in Snaps : snap[s].pc = "unborn"
    /\ e_cmds' = Tail(e_cmds)
    /\ snap' = [snap EXCEPT ![FreshSnap] = NewSnap(Head(e_cmds).camera, Head(e_cmds).confirm)]
    /\ e' = EAfterHandler([e EXCEPT !.running_tasks = e.running_tasks \cup {FreshSnap}])
    /\ UNCHANGED <<coreVars, sent, fs, gVars, e_out, snap_store, hVars>>

\* Command GetTaskCount
ECommandGetTaskCount ==
    /\ e.pc = "loop"
    /\ e_cmds # <<>>
    /\ Head(e_cmds).kind = "GetTaskCount"
    /\ e_cmds' = Tail(e_cmds)
    /\ e_out' = [e_out EXCEPT !.counts =
                    e_out.counts \cup {<<Head(e_cmds).n, Cardinality(e.running_tasks)>>}]
    /\ e' = EAfterHandler(e)
    /\ UNCHANGED <<coreVars, sent, fs, gVars, snap, snap_store, hVars>>

\* select! arm 2 of run(): a join handle of running_tasks is ready
EJoin(s) ==
    /\ e.pc = "loop"
    /\ s \in e.running_tasks
    /\ snap[s].pc = "ended"
    /\ e' = EAfterHandler([e EXCEPT !.running_tasks = e.running_tasks \ {s}])
    /\ UNCHANGED <<coreVars, sent, fs, gVars, e_cmds, e_out, snap, snap_store, hVars>>

\* "Wrap all remaining tasks": one iteration of the while-let after the loop
EDrainJoin(s) ==
    /\ e.pc = "drain"
    /\ s \in e.running_tasks
    /\ snap[s].pc = "ended"
    /\ e' = [e EXCEPT !.running_tasks = e.running_tasks \ {s}]
    /\ UNCHANGED <<coreVars, sent, fs, gVars, e_cmds, e_out, snap, snap_store, hVars>>

DrainDoneMutant(running_tasks) == TRUE

\* running_tasks.next() yields None: nothing is left to wrap
DrainDone(running_tasks) == running_tasks = {}

\* run() returns
EReturn ==
    /\ e.pc = "drain"
    /\ DrainDone(e.running_tasks)
    /\ e' = [e EXCEPT !.pc = "returned"]
    /\ UNCHANGED <<coreVars, sent, fs, gVars, e_cmds, e_out, snap, snap_store, hVars>>

EStep ==
    \/ ECommandStop
    \/ ECommandTask
    \/ ECommandGetTaskCount
    \/ \E s \in Snaps : EJoin(s)
    \/ \E s \in Snaps : EDrainJoin(s)
    \/ EReturn

\* a client of E (H, or the handler tests) puts a command on the channel
SnapClientSend ==
    /\ e_out.sent < MaxCmds
    /\ \E c \in [kind : {"Task"}, camera : Cameras, confirm : {0, e_out.sent + 1},
                  n : {e_out.sent + 1}]
             \cup [kind : {"GetTaskCount", "Stop"}, camera : {"c1"}, confirm : {0},
                   n : {e_out.sent + 1}] :
         e_cmds' = Append(e_cmds, c)
    /\ e_out' = [e_out EXCEPT !.sent = e_out.sent + 1]
    /\ UNCHANGED <<coreVars, sent, fs, gVars, e, snap, snap_store, hVars>>

\* ------------------------------------------- H: SyncSystem ---------------
\* cameras_*_state: HashMap<String, bool>, "absent" for a camera without entry.
\* Observation only: last_*_event is the latest state event the broker sent
\* for a camera, *_on_seen the cameras that were ever switched on,
\* nvr_uptime_reached whether the NVR reports uptime >= delay_after_startup,
\* startup_failed whether a test of the start-up logged an error, and
\* ignored_live whether a review was ignored while a task of its id was live.
HInit ==
    [pc |-> "test_api",
     cameras_recordings_state |-> [c \in Cameras |-> "absent"],
     cameras_snapshots_state |-> [c \in Cameras |-> "absent"],
     received |-> 0, stops_sent |-> {},
     last_recordings_event |-> [c \in Cameras |-> "none"],
     last_snapshots_event |-> [c \in Cameras |-> "none"],
     recordings_on_seen |-> {}, snapshots_on_seen |-> {},
     nvr_uptime_reached |-> FALSE, startup_failed |-> FALSE, ignored_live |-> FALSE]

\* a camera without entry counted as enabled
camera_recordings_stateMutant(hh, c) == hh.cameras_recordings_state[c] # "false"

\* CamerasState::camera_recordings_state: get(..).copied().unwrap_or(false)
camera_recordings_state(hh, c) == hh.cameras_recordings_state[c] = "true"

\* CamerasState::camera_snapshots_state
camera_snapshots_state(hh, c) == hh.cameras_snapshots_state[c] = "true"

\* the value is stored for every camera
update_recordings_stateAll(hh, c, value) ==
    [hh EXCEPT !.cameras_recordings_state =
                  [x \in Cameras |-> IF value THEN "true" ELSE "false"]]

\* CamerasState::update_recordings_state: insert(camera_name, value)
update_recordings_state(hh, c, value) ==
    [hh EXCEPT !.cameras_recordings_state[c] = IF value THEN "true" ELSE "false"]

update_snapshots_state(hh, c, value) ==
    [hh EXCEPT !.cameras_snapshots_state[c] = IF value THEN "true" ELSE "false"]

\* a manager's command_receiver exists as long as its run() has not ended
RecReceiverAlive == g.pc \notin {"returned", "panicked"}
SnapReceiverAlive == e.pc # "returned"

TestCallOutcomes ==
    {"ok"} \cup (IF "api_make" \in faults THEN {"make_err"} ELSE {})
           \cup (IF {"api_err", "test_call"} \cap faults # {} THEN {"err"} ELSE {})

\* test_frigate_api_connection: a failed test call is logged and slept on,
\* a failed construction of the API object panics
HTestApi ==
    /\ h.pc = "test_api"
    /\ \E out \in TestCallOutcomes :
         h' = [h EXCEPT !.pc = IF out = "make_err" THEN "panicked" ELSE "test_senders",
                        !.startup_failed = (out = "err")]
    /\ UNCHANGED <<coreVars, sent, fs, gVars, eVars, stop_chan>>

\* the first failure of a file sender ends start()
HTestSendersFatal ==
    /\ h.pc = "test_senders"
    /\ \E res \in [DescNames -> IF "test_senders" \in faults
                                 THEN {"ok", "make_err", "ls_err"} ELSE {"ok"}] :
         h' = [h EXCEPT !.pc = IF \E d \in DescNames : res[d] # "ok"
                                THEN "returned" ELSE "loop",
                        !.startup_failed = @ \/ \E d \in DescNames : res[d] # "ok"]
    /\ UNCHANGED <<coreVars, sent, fs, gVars, eVars, stop_chan>>

\* test_file_senders: every sender is made and asked for ls("."); a sender
\* that cannot be made and an ls that fails are only logged
HTestSenders ==
    /\ h.pc = "test_senders"
    /\ \E res \in [DescNames -> IF "test_senders" \in faults
                                 THEN {"ok", "make_err", "ls_err"} ELSE {"ok"}] :
         h' = [h EXCEPT !.pc = "loop",
                        !.startup_failed = @ \/ \E d \in DescNames : res[d] # "ok"]
    /\ UNCHANGED <<coreVars, sent, fs, gVars, eVars, stop_chan>>

\* select! arm 1, CapturedPayloads::CameraRecordingsState
HRecordingsState ==
    /\ h.pc = "loop"
    /\ h.received < MaxMqtt
    /\ \E c \in Cameras, value \in BOOLEAN :
         h' = [update_recordings_state(h, c, value) EXCEPT
                  !.received = h.received + 1,
                  !.last_recordings_event[c] = IF value THEN "on" ELSE "off",
                  !.recordings_on_seen = IF value THEN @ \cup {c} ELSE @]
    /\ UNCHANGED <<coreVars, sent, fs, gVars, eVars, stop_chan>>

\* select! arm 1, CapturedPayloads::CameraSnapshotsState
HSnapshotsState ==
    /\ h.pc = "loop"
    /\ h.received < MaxMqtt
    /\ \E c \in Cameras, value \in BOOLEAN :
         h' = [update_snapshots_state(h, c, value) EXCEPT
                  !.received = h.received + 1,
                  !.last_snapshots_event[c] = IF value THEN "on" ELSE "off",
                  !.snapshots_on_seen = IF value THEN @ \cup {c} ELSE @]
    /\ UNCHANGED <<coreVars, sent, fs, gVars, eVars, stop_chan>>

\* select! arm 1, CapturedPayloads::Snapshot -> handle_snapshot_payload
HSnapshot ==
    /\ h.pc = "loop"
    /\ h.received < MaxMqtt
    /\ \E c \in Cameras :
         e_cmds' = IF camera_snapshots_state(h, c) /\ SnapReceiverAlive
                   THEN Append(e_cmds, [kind |-> "Task", camera |-> c, confirm |-> 0, n |-> 0])
                   ELSE e_cmds
    /\ h' = [h EXCEPT !.received = h.received + 1]
    /\ UNCHANGED <<coreVars, sent, fs, gVars, e, e_out, snap, snap_store, stop_chan>>

\* a recording task of review id is running
LiveTask(id) == \E t \in Tasks : task[t].id = id /\ task[t].pc \notin {"unborn", "ended"}

\* a review whose id has a running task is forwarded whatever the flag says
HReviewOfLiveTask ==
    /\ h.pc = "loop"
    /\ h.received < MaxMqtt
    /\ \E id \in Ids, type \in {"new", "end"} :
         /\ g_cmds' = IF (camera_recordings_state(h, camera_name(id)) \/ LiveTask(id))
                         /\ RecReceiverAlive
                      THEN Append(g_cmds, [kind |-> "Task", id |-> id, type |-> type,
                                           confirm |-> FALSE, n |-> 0])
                      ELSE g_cmds
         /\ h' = [h EXCEPT !.received = h.received + 1,
                           !.ignored_live = @ \/ (LiveTask(id) /\
                                ~camera_recordings_state(h, camera_name(id)))]
    /\ UNCHANGED <<coreVars, sent, fs, g, g_out, eVars, stop_chan>>

\* select! arm 1, CapturedPayloads::Reviews -> handle_review_payload
HReview ==
    /\ h.pc = "loop"
    /\ h.received < MaxMqtt
    /\ \E id \in Ids, type \in {"new", "end"} :
         /\ g_cmds' = IF camera_recordings_state(h, camera_name(id)) /\ RecReceiverAlive
                      THEN Append(g_cmds, [kind |-> "Task", id |-> id, type |-> type,
                                           confirm |-> FALSE, n |-> 0])
                      ELSE g_cmds
         /\ h' = [h EXCEPT !.received = h.received + 1,
                           !.ignored_live = @ \/ (LiveTask(id) /\
                                ~camera_recordings_state(h, camera_name(id)))]
    /\ UNCHANGED <<coreVars, sent, fs, g, g_out, eVars, stop_chan>>

\* select! arm 2: the stop signal breaks the loop; Stop is sent to the
\* recordings handler, then to the snapshots handler, each with expect()
HStop ==
    /\ h.pc = "loop"
    /\ stop_chan > 0
    /\ stop_chan' = stop_chan - 1
    /\ IF ~RecReceiverAlive
       THEN /\ h' = [h EXCEPT !.pc = "panicked"]
            /\ UNCHANGED <<g_cmds, e_cmds>>
       ELSE /\ g_cmds' = Append(g_cmds, [kind |-> "Stop", id |-> "r1", type |-> "new",
                                         confirm |-> FALSE, n |-> 0])
            /\ IF ~SnapReceiverAlive
               THEN /\ h' = [h EXCEPT !.pc = "panicked", !.stops_sent = {"g"}]
                    /\ UNCHANGED e_cmds
               ELSE /\ e_cmds' = Append(e_cmds, [kind |-> "Stop", camera |-> "c1",
                                                 confirm |-> 0, n |-> 0])
                    /\ h' = [h EXCEPT !.pc = "join_g", !.stops_sent = {"g", "e"}]
    /\ UNCHANGED <<coreVars, sent, fs, g, g_out, e, e_out, snap, snap_store>>

\* join_handles: the recordings handler is awaited first (a join error is logged)
HJoinRecordings ==
    /\ h.pc = "join_g"
    /\ g.pc \in {"returned", "panicked"}
    /\ h' = [h EXCEPT !.pc = "join_e"]
    /\ UNCHANGED <<coreVars, sent, fs, gVars, eVars, stop_chan>>

\* then the snapshots handler; start() returns Ok(())
HJoinSnapshots ==
    /\ h.pc = "join_e"
    /\ e.pc = "returned"
    /\ h' = [h EXCEPT !.pc = "returned"]
    /\ UNCHANGED <<coreVars, sent, fs, gVars, eVars, stop_chan>>

\* the NVR has been up for delay_after_startup: from now on its stats
\* report an uptime that is not below the configured delay
NvrUptimeReached ==
    /\ h.pc \in {"test_api", "test_senders", "loop"}
    /\ ~h.nvr_uptime_reached
    /\ h' = [h EXCEPT !.nvr_uptime_reached = TRUE]
    /\ UNCHANGED <<coreVars, sent, fs, gVars, eVars, stop_chan>>

\* the owner of the stop_sender asks the running system to stop
StopSend ==
    /\ h.pc \in {"test_api", "test_senders", "loop"}
    /\ stop_chan = 0
    /\ stop_chan' = 1
    /\ UNCHANGED <<coreVars, sent, fs, gVars, eVars, h>>

\* ------------------------------------------------- specifications --------
allVars == <<coreVars, sent, fs, gVars, eVars, hVars>>

NoTasks ==
    /\ api_calls = [t \in Tasks |-> 0]
    /\ store = EmptyStore
    /\ task = [t \in Tasks |-> UnbornTask]
    /\ chan = [t \in Tasks |-> <<>>]
    /\ hist = [t \in Tasks |-> NoHist]
    /\ sent = 0
    /\ fs = FsOff

NoSnaps ==
    /\ snap = [s \in Snaps |-> UnbornSnap]
    /\ snap_store = EmptySnapStore

GIdle == g = GInit /\ g_cmds = <<>> /\ g_out = GOutInit
EIdle == e = EInit /\ e_cmds = <<>> /\ e_out = EOutInit
HOff == h = [HInit EXCEPT !.pc = "off"] /\ stop_chan = 0

\* The steps of a task between two await points of its caller touch only that
\* task's own fields and files, so they are scheduled without interruption: a
\* process other than the running task steps only when no upload run is
\* under way.
Quiet ==
    /\ \A t \in Tasks : task[t].pc # "run"
    /\ \A s \in Snaps : snap[s].pc # "run"

\* --- G with its recording tasks, driven by a client
\* as in the handler tests, the API and the stores work; a task still ends
\* through its End review or through its retry budget
MgrFaults == {}

InitMgr(f) ==
    /\ clock = 0
    /\ faults = f
    /\ NoTasks
    /\ \E m \in 0..MaxRetryAttempts : g = [GInit EXCEPT !.max_retry_attempts_on_task = m]
    /\ g_cmds = <<>>
    /\ g_out = GOutInit
    /\ EIdle
    /\ NoSnaps
    /\ HOff

NextMgr ==
    \/ Quiet /\ ClientSend
    \/ Quiet /\ GCommandStop
    \/ Quiet /\ GCommandTaskNew
    \/ Quiet /\ GFirstResolved
    \/ Quiet /\ GCommandTaskKnown
    \/ Quiet /\ GCommandGetTaskCount
    \/ \E t \in Tasks : Quiet /\ GJoin(t)
    \/ \E t \in Tasks : Quiet /\ TaskStart(t)
    \/ \E t \in Tasks : Quiet /\ TaskRecv(t)
    \/ \E t \in Tasks : Quiet /\ TaskRetryTimer(t)
    \/ \E t \in Tasks : RunGetVideo(t)
    \/ \E t \in Tasks : OpRoundBegin(t)
    \/ \E t \in Tasks : OpUploadOnSender(t)
    \/ \E t \in Tasks : OpDeleteOnSender(t)
    \/ \E t \in Tasks : OpFinish(t)

SpecMgr == InitMgr(MgrFaults) /\ [][NextMgr]_allVars

\* the same processes when the API can fail to return the clip, so that the
\* first attempt of a launched task returns either way; the handler is
\* configured without retries, which leaves the launch as it is
InitLaunch ==
    /\ InitMgr({"api_err"})
    /\ g.max_retry_attempts_on_task = 0

SpecLaunch == InitLaunch /\ [][NextMgr]_allVars

\* G's loop and every spawned task are tokio tasks that the runtime keeps
\* polling; a timer that is armed fires.
FairSpecMgr ==
    /\ SpecMgr
    /\ WF_allVars(Quiet /\ GStep)
    /\ \A t \in Tasks : WF_allVars((Quiet \/ task[t].pc = "run") /\ TaskStep(t))

\* --- G with its recording tasks when the retry period is long
\* The retry deadline of a task lies retry_duration ahead (60 s by default,
\* 500 ms in the handler tests), while a queued review is received and G's
\* continuation after first_resolve_receiver runs without waiting: the
\* deadline fires only when no review is queued for the task and G is not
\* about to send it one.
RetryDeadlineDue(t) == chan[t] = <<>> /\ g.awaiting # t

InitTimed(f) ==
    /\ clock = 0
    /\ faults = f
    /\ NoTasks
    /\ \E m \in 0..MaxRetryAttempts : g = [GInit EXCEPT !.max_retry_attempts_on_task = m]
    /\ g_cmds = <<>>
    /\ g_out = GOutInit
    /\ EIdle
    /\ NoSnaps
    /\ HOff

NextTimed ==
    \/ Quiet /\ ClientSend
    \/ Quiet /\ GCommandStop
    \/ Quiet /\ GCommandTaskNew
    \/ Quiet /\ GFirstResolved
    \/ Quiet /\ GCommandTaskKnown
    \/ Quiet /\ GCommandGetTaskCount
    \/ \E t \in Tasks : Quiet /\ GJoin(t)
    \/ \E t \in Tasks : Quiet /\ TaskStart(t)
    \/ \E t \in Tasks : Quiet /\ TaskRecv(t)
    \/ \E t \in Tasks : Quiet /\ RetryDeadlineDue(t) /\ TaskRetryTimer(t)
    \/ \E t \in Tasks : RunGetVideo(t)
    \/ \E t \in Tasks : OpRoundBegin(t)
    \/ \E t \in Tasks : OpUploadOnSender(t)
    \/ \E t \in Tasks : OpDeleteOnSender(t)
    \/ \E t \in Tasks : OpFinish(t)

\* G's loop and every spawned task are polled by the runtime; a deadline
\* that is due fires.
FairTimed ==
    /\ WF_allVars(Quiet /\ GStep)
    /\ \A t \in Tasks :
         WF_allVars(\/ Quiet /\ (TaskStart(t) \/ TaskRecv(t))
                    \/ Quiet /\ RetryDeadlineDue(t) /\ TaskRetryTimer(t)
                    \/ task[t].pc = "run" /\ TaskStep(t))

\* as in the handler tests, the API and the stores work
SpecTimed == InitTimed({}) /\ [][NextTimed]_allVars
FairSpecTimed == SpecTimed /\ FairTimed

\* the NVR API may fail to return the clip
SpecTimedApi == InitTimed({"api_err"}) /\ [][NextTimed]_allVars
FairSpecTimedApi == SpecTimedApi /\ FairTimed

\* --- G driven by a client that awaits every answer
\* the client of the handler tests: it sends a command, awaits its ack or its
\* count and only then sends the next one
Answered(n) == n \in g_out.acks \/ \E k \in 0..MaxTasks : <<n, k>> \in g_out.counts

ClientSendAwait ==
    /\ g_out.sent < MaxAwaitCmds
    /\ g_out.sent = 0 \/ Answered(g_out.sent)
    /\ \E c \in [kind : {"Task"}, id : Ids, type : {"new", "end"}, confirm : {TRUE},
                  n : {g_out.sent + 1}]
             \cup [kind : {"GetTaskCount"}, id : {"r1"}, type : {"new"},
                   confirm : {FALSE}, n : {g_out.sent + 1}] :
         /\ g_cmds' = Append(g_cmds, c)
         /\ g_out' = [g_out EXCEPT !.sent = g_out.sent + 1,
                                   !.reviews_sent[c.id] = IF c.kind = "Task" THEN @ + 1 ELSE @]
    /\ UNCHANGED <<coreVars, sent, fs, g, eVars, hVars>>

NextAwait ==
    \/ Quiet /\ ClientSendAwait
    \/ Quiet /\ GCommandTaskNew
    \/ Quiet /\ GFirstResolved
    \/ Quiet /\ GCommandTaskKnown
    \/ Quiet /\ GCommandGetTaskCount
    \/ \E t \in Tasks : Quiet /\ GJoin(t)
    \/ \E t \in Tasks : Quiet /\ TaskStart(t)
    \/ \E t \in Tasks : Quiet /\ TaskRecv(t)
    \/ \E t \in Tasks : Quiet /\ RetryDeadlineDue(t) /\ TaskRetryTimer(t)
    \/ \E t \in Tasks : RunGetVideo(t)
    \/ \E t \in Tasks : OpRoundBegin(t)
    \/ \E t \in Tasks : OpUploadOnSender(t)
    \/ \E t \in Tasks : OpDeleteOnSender(t)
    \/ \E t \in Tasks : OpFinish(t)

\* the API and the stores work
SpecAwait == InitTimed({}) /\ [][NextAwait]_allVars

\* --- one recording task driven by a harness
TaskFaults == {"api_err", "put", "partial", "del"}

InitTask(f) ==
    /\ clock = 0
    /\ faults = f
    /\ api_calls = [t \in Tasks |-> 0]
    /\ store = EmptyStore
    /\ \E m \in 0..MaxRetryAttempts :
         task = [t \in Tasks |-> IF t = 1 THEN NewTask("r1", "new", m) ELSE UnbornTask]
    /\ chan = [t \in Tasks |-> <<>>]
    /\ hist = [t \in Tasks |-> NoHist]
    /\ sent = 0
    /\ fs = FsOff
    /\ GIdle
    /\ EIdle
    /\ NoSnaps
    /\ HOff

NextTask ==
    \/ \E t \in Tasks : TaskStep(t)
    \/ \E t \in Tasks : HarnessSend(t)
    \/ Tick

SpecTask == InitTask(TaskFaults) /\ [][NextTask]_allVars

\* the same task with destinations that may fail to be made, to be
\* initialised, to make the directory and to store the file
\* and with a review of which no further version arrives
NextFileOp ==
    \/ \E t \in Tasks : TaskStart(t)
    \/ \E t \in Tasks : TaskRetryTimer(t)
    \/ \E t \in Tasks : RunGetVideo(t)
    \/ \E t \in Tasks : OpRoundBegin(t)
    \/ \E t \in Tasks : OpUploadOnSender(t)
    \/ \E t \in Tasks : OpDeleteOnSender(t)
    \/ \E t \in Tasks : OpFinish(t)

SpecFileOp == InitTask({"make", "init", "mkdir", "put"}) /\ [][NextFileOp]_allVars

\* one review, an API that may fail and destinations at which
\* put_from_memory may fail
SpecRetry == InitTask({"api_err", "put"}) /\ [][NextFileOp]_allVars

\* sleep_until(retry_instant) has completed
DeadlineReached(t) == clock >= task[t].retry_instant

\* --- one recording task whose retry timer fires when its deadline is
\* reached, while time passes and further versions of the review arrive
NextDeadline ==
    \/ \E t \in Tasks : TaskStart(t)
    \/ \E t \in Tasks : TaskRecv(t)
    \/ \E t \in Tasks : DeadlineReached(t) /\ TaskRetryTimer(t)
    \/ \E t \in Tasks : RunGetVideo(t)
    \/ \E t \in Tasks : OpRoundBegin(t)
    \/ \E t \in Tasks : OpUploadOnSender(t)
    \/ \E t \in Tasks : OpDeleteOnSender(t)
    \/ \E t \in Tasks : OpFinish(t)
    \/ \E t \in Tasks : HarnessSend(t)
    \/ Tick

SpecDeadline == InitTask({"api_err"}) /\ [][NextDeadline]_allVars

\* a task that receives further versions of its review while the clock
\* stands still, with destinations at which put_from_memory, file_exists
\* and del_file may fail
NextDelete ==
    \/ \E t \in Tasks : TaskStep(t)
    \/ \E t \in Tasks : HarnessSend(t)

SpecDelete == InitTask({"put", "exists", "del"}) /\ [][NextDelete]_allVars

\* --- E with its snapshot tasks, driven by a client
\* a destination may fail to open and a put may fail
SnapFaults == {"make", "put"}

InitSnap ==
    /\ clock = 0
    /\ faults = SnapFaults
    /\ NoTasks
    /\ GIdle
    /\ EIdle
    /\ NoSnaps
    /\ HOff

NextSnap ==
    \/ Quiet /\ SnapClientSend
    \/ Quiet /\ ECommandStop
    \/ Quiet /\ ECommandTask
    \/ Quiet /\ ECommandGetTaskCount
    \/ \E s \in Snaps : Quiet /\ EJoin(s)
    \/ \E s \in Snaps : Quiet /\ EDrainJoin(s)
    \/ Quiet /\ EReturn
    \/ \E s \in Snaps : Quiet /\ SnapStart(s)
    \/ \E s \in Snaps : SnapRoundBegin(s)
    \/ \E s \in Snaps : SnapUploadOnSender(s)
    \/ \E s \in Snaps : SnapFinish(s)

SpecSnap == InitSnap /\ [][NextSnap]_allVars

\* --- one manager at a time, driven by a client that may queue commands
\* behind Stop
\* as in the tests of the two handlers, only one of G and E is constructed
\* (the other one is "off"); the API and the stores work
InitStop ==
    /\ clock = 0
    /\ faults = {}
    /\ NoTasks
    /\ NoSnaps
    /\ g_cmds = <<>>
    /\ g_out = GOutInit
    /\ e_cmds = <<>>
    /\ e_out = EOutInit
    /\ \/ /\ g = [GInit EXCEPT !.max_retry_attempts_on_task =
                      Min(DEFAULT_MAX_RETRY_ATTEMPTS, MaxRetryAttempts)]
          /\ e = [EInit EXCEPT !.pc = "off"]
       \/ /\ g = [GInit EXCEPT !.pc = "off"]
          /\ e = EInit
    /\ HOff

NextStop ==
    \/ g.pc # "off" /\ NextMgr
    \/ e.pc # "off" /\ NextSnap

SpecStop == InitStop /\ [][NextStop]_allVars

\* --- E while it is not asked to stop: its client sends the snapshots of
\* one camera, with or without a confirmation
SnapClientSendTask ==
    /\ e_out.sent < MaxCmds
    /\ \E c \in [kind : {"Task"}, camera : {"c1"}, confirm : {0, e_out.sent + 1},
                  n : {e_out.sent + 1}] :
         e_cmds' = Append(e_cmds, c)
    /\ e_out' = [e_out EXCEPT !.sent = e_out.sent + 1]
    /\ UNCHANGED <<coreVars, sent, fs, gVars, e, snap, snap_store, hVars>>

NextSnapTasks ==
    \/ Quiet /\ SnapClientSendTask
    \/ Quiet /\ ECommandTask
    \/ \E s \in Snaps : Quiet /\ EJoin(s)
    \/ \E s \in Snaps : Quiet /\ SnapStart(s)
    \/ \E s \in Snaps : SnapRoundBegin(s)
    \/ \E s \in Snaps : SnapUploadOnSender(s)
    \/ \E s \in Snaps : SnapFinish(s)

SpecSnapTasks == InitSnap /\ [][NextSnapTasks]_allVars

\* E's loop and every spawned snapshot task are polled by the runtime
FairSpecSnapTasks ==
    /\ SpecSnapTasks
    /\ WF_allVars(Quiet /\ EStep)
    /\ \A s \in Snaps : WF_allVars((Quiet \/ snap[s].pc = "run") /\ SnapStep(s))

\* --- the whole system: H, both handlers and their tasks
\* as in the system tests, the API and the stores work
SysFaults == {}

InitSys(f) ==
    /\ clock = 0
    /\ faults = f
    /\ NoTasks
    /\ g = [GInit EXCEPT !.max_retry_attempts_on_task =
               Min(DEFAULT_MAX_RETRY_ATTEMPTS, MaxRetryAttempts)]
    /\ g_cmds = <<>>
    /\ g_out = GOutInit
    /\ EIdle
    /\ NoSnaps
    /\ h = HInit
    /\ stop_chan = 0

NextSys ==
    \/ Quiet /\ StopSend
    \/ Quiet /\ NvrUptimeReached
    \/ Quiet /\ HTestApi
    \/ Quiet /\ HTestSenders
    \/ Quiet /\ HRecordingsState
    \/ Quiet /\ HSnapshotsState
    \/ Quiet /\ HSnapshot
    \/ Quiet /\ HReview
    \/ Quiet /\ HStop
    \/ Quiet /\ HJoinRecordings
    \/ Quiet /\ HJoinSnapshots
    \/ Quiet /\ GCommandStop
    \/ Quiet /\ GCommandTaskNew
    \/ Quiet /\ GFirstResolved
    \/ Quiet /\ GCommandTaskKnown
    \/ \E t \in Tasks : Quiet /\ GJoin(t)
    \/ Quiet /\ ECommandStop
    \/ Quiet /\ ECommandTask
    \/ \E s \in Snaps : Quiet /\ EJoin(s)
    \/ \E s \in Snaps : Quiet /\ EDrainJoin(s)
    \/ Quiet /\ EReturn
    \/ \E t \in Tasks : Quiet /\ TaskStart(t)
    \/ \E t \in Tasks : Quiet /\ TaskRecv(t)
    \/ \E t \in Tasks : Quiet /\ TaskRetryTimer(t)
    \/ \E t \in Tasks : RunGetVideo(t)
    \/ \E t \in Tasks : OpRoundBegin(t)
    \/ \E t \in Tasks : OpUploadOnSender(t)
    \/ \E t \in Tasks : OpDeleteOnSender(t)
    \/ \E t \in Tasks : OpFinish(t)
    \/ \E s \in Snaps : Quiet /\ SnapStart(s)
    \/ \E s \in Snaps : SnapRoundBegin(s)
    \/ \E s \in Snaps : SnapUploadOnSender(s)
    \/ \E s \in Snaps : SnapFinish(s)

SpecSys == InitSys(SysFaults) /\ [][NextSys]_allVars

\* --- H, G and the recording tasks once the loop of H is running
\* H has passed its start-up and has handled "recordings ON" for camera c1;
\* the events counted are those that follow
InitGate ==
    /\ clock = 0
    /\ faults = {}
    /\ NoTasks
    /\ g = [GInit EXCEPT !.max_retry_attempts_on_task =
               Min(DEFAULT_MAX_RETRY_ATTEMPTS, MaxRetryAttempts)]
    /\ g_cmds = <<>>
    /\ g_out = GOutInit
    /\ EIdle
    /\ NoSnaps
    /\ h = [update_recordings_state(HInit, "c1", TRUE) EXCEPT
               !.pc = "loop", !.last_recordings_event["c1"] = "on",
               !.recordings_on_seen = {"c1"}]
    /\ stop_chan = 0

NextGate ==
    \/ Quiet /\ HRecordingsState
    \/ Quiet /\ HReview
    \/ Quiet /\ GCommandTaskNew
    \/ Quiet /\ GFirstResolved
    \/ Quiet /\ GCommandTaskKnown
    \/ \E t \in Tasks : Quiet /\ GJoin(t)
    \/ \E t \in Tasks : Quiet /\ TaskStart(t)
    \/ \E t \in Tasks : Quiet /\ TaskRecv(t)
    \/ \E t \in Tasks : Quiet /\ TaskRetryTimer(t)
    \/ \E t \in Tasks : RunGetVideo(t)
    \/ \E t \in Tasks : OpRoundBegin(t)
    \/ \E t \in Tasks : OpUploadOnSender(t)
    \/ \E t \in Tasks : OpDeleteOnSender(t)
    \/ \E t \in Tasks : OpFinish(t)

SpecGate == InitGate /\ [][NextGate]_allVars

\* the same system with a start-up whose test call and whose tests of the
\* file senders can fail
SpecStartup == InitSys({"test_call", "test_senders"}) /\ [][NextSys]_allVars

\* H's start(), both handlers and every spawned task are polled by the tokio
\* runtime; select! picks among its ready arms at random, so an arm that
\* stays ready is taken.  Broker events are the environment's.
FairSpecSys ==
    /\ SpecSys
    /\ WF_allVars(Quiet /\ HStop)
    /\ WF_allVars(Quiet /\ (HTestApi \/ HTestSenders \/ HJoinRecordings \/ HJoinSnapshots))
    /\ WF_allVars(Quiet /\ GStep)
    /\ WF_allVars(Quiet /\ EStep)
    /\ \A t \in Tasks : WF_allVars((Quiet \/ task[t].pc = "run") /\ TaskStep(t))
    /\ \A s \in Snaps : WF_allVars((Quiet \/ snap[s].pc = "run") /\ SnapStep(s))

\* ------------------------------------------------ file-sender library ----
\* A text is a sequence of characters.  The keywords of the descriptor
\* syntax ("local", "username", ..) and the text "<in-memory>" are written
\* as one element each; field values are made of the characters "a", ";",
\* " ", ":" and "7".  An identity is [src |-> "OnDisk" or "InMemory", v].

\* all sequences over S of at most n elements
RECURSIVE SeqsUpTo(_, _)
SeqsUpTo(S, n) ==
    IF n = 0 THEN {<<>>}
    ELSE LET shorter == SeqsUpTo(S, n - 1)
         IN  shorter \cup {Append(q, c) : q \in {x \in shorter : Len(x) = n - 1}, c \in S}

\* PathDescriptor::Local
Local(path) ==
    [kind |-> "Local", path |-> path, username |-> <<>>, remote_address |-> <<>>,
     remote_path |-> <<>>, identity |-> [src |-> "none", v |-> <<>>]]

\* PathDescriptor::Sftp
Sftp(username, remote_address, remote_path, identity) ==
    [kind |-> "Sftp", path |-> <<>>, username |-> username,
     remote_address |-> remote_address, remote_path |-> remote_path, identity |-> identity]

\* IdentitySource::display
display(identity) ==
    IF identity.src = "InMemory" THEN <<"<in-memory>">> ELSE identity.v

\* the fields are separated by commas
to_stringComma(d) ==
    IF d.kind = "Local"
    THEN <<"local", ":", "path", "=">> \o d.path
    ELSE <<"sftp", ":", "username", "=">> \o d.username
         \o <<",", "host", "=">> \o d.remote_address
         \o <<",", "remote-path", "=">> \o d.remote_path
         \o <<",", "identity", "=">> \o display(d.identity)

\* impl Display for PathDescriptor
to_string(d) ==
    IF d.kind = "Local"
    THEN <<"local", ":", "path", "=">> \o d.path
    ELSE <<"sftp", ":", "username", "=">> \o d.username
         \o <<";", "host", "=">> \o d.remote_address
         \o <<";", "remote-path", "=">> \o d.remote_path
         \o <<";", "identity", "=">> \o display(d.identity)

\* str::find: the first position of c in s, 0 when there is none
Find(s, c) ==
    IF \E i \in 1..Len(s) : s[i] = c
    THEN CHOOSE i \in 1..Len(s) : s[i] = c /\ \A j \in 1..(i - 1) : s[j] # c
    ELSE 0

\* str::split_once at position i: the text before it and the text after it
Before(s, i) == SubSeq(s, 1, i - 1)
After(s, i) == SubSeq(s, i + 1, Len(s))

\* str::split
RECURSIVE split(_, _)
split(s, c) ==
    IF Find(s, c) = 0 THEN <<s>>
    ELSE <<Before(s, Find(s, c))>> \o split(After(s, Find(s, c)), c)

\* str::trim_start, str::trim_end, str::trim
RECURSIVE trim_start(_)
trim_start(s) == IF s # <<>> /\ Head(s) = " " THEN trim_start(Tail(s)) ELSE s

RECURSIVE trim_end(_)
trim_end(s) ==
    IF s # <<>> /\ s[Len(s)] = " " THEN trim_end(SubSeq(s, 1, Len(s) - 1)) ELSE s

trim(s) == trim_end(trim_start(s))

\* parse_key_vals_string: every part is trimmed and split at its first '=';
\* a part without '=', a key that is not allowed, a key given twice or a
\* required key that is missing is an error.  The result maps keys to values.
parse_key_vals_string(input, required_keys) ==
    LET parts == split(input, ";")
        part(i) == trim(parts[i])
        key(i) == Before(part(i), Find(part(i), "="))
        value(i) == After(part(i), Find(part(i), "="))
        idx == 1..Len(parts)
        wellFormed ==
            /\ \A i \in idx : Find(part(i), "=") # 0
            /\ \A i \in idx : \E k \in required_keys : key(i) = <<k>>
            /\ \A i, j \in idx : key(i) = key(j) => i = j
            /\ \A k \in required_keys : \E i \in idx : key(i) = <<k>>
    IN  IF wellFormed
        THEN [ok |-> TRUE,
              map |-> [k \in required_keys |->
                          value(CHOOSE i \in idx : key(i) = <<k>>)]]
        ELSE [ok |-> FALSE, map |-> [k \in required_keys |-> <<>>]]

\* port.parse::<u16>() of the text after the ':' of host
IsPort(s) == s # <<>> /\ Len(s) <= 4 /\ \A i \in 1..Len(s) : s[i] = "7"

\* impl FromStr for PathDescriptor; the result is [ok, d]
from_str(input) ==
    LET colon == Find(input, ":")
        dest_type == Before(input, colon)
        dest_data == After(input, colon)
        Err == [ok |-> FALSE, d |-> Local(<<>>)]
        Ok(d) == [ok |-> TRUE, d |-> d]
    IN  IF colon = 0 THEN Err
        ELSE IF dest_type = <<"local">>
        THEN LET kv == parse_key_vals_string(dest_data, {"path"})
             IN  IF kv.ok THEN Ok(Local(kv.map["path"])) ELSE Err
        ELSE IF dest_type = <<"sftp">>
        THEN LET kv == parse_key_vals_string(dest_data,
                           {"username", "host", "remote-path", "identity"})
                 host == kv.map["host"]
             IN  IF ~kv.ok THEN Err
                 ELSE IF Find(host, ":") # 0 /\ ~IsPort(After(host, Find(host, ":")))
                 THEN Err
                 ELSE Ok(Sftp(kv.map["username"], host, kv.map["remote-path"],
                              [src |-> "OnDisk", v |-> kv.map["identity"]]))
        ELSE Err

\* the descriptors that can be constructed: any value in any field
PathDescriptors ==
    LET Values == SeqsUpTo({"a", ";", " ", ":", "7"}, MaxValueLen)
        HostValues == {<<"a">>, <<"a", ":", "7">>, <<"a", ":", "a">>, <<"a", ":">>}
        PathValues == {<<"a">>, <<"a", ";">>, <<"a", " ">>}
        Identities == {[src |-> "OnDisk", v |-> v] : v \in PathValues}
                      \cup {[src |-> "InMemory", v |-> <<"a">>]}
    IN  {Local(v) : v \in Values}
        \cup {Sftp(u, ho, r, i) :
                 u \in Values, ho \in HostValues, r \in PathValues, i \in Identities}

\* A path is [root, comps]: whether it begins with '/', and its components
\* between the separators: ".", ".." or a normal name.
VirtualPaths ==
    {[root |-> r, comps |-> q] : r \in BOOLEAN, q \in SeqsUpTo({".", "..", "a", "b"}, MaxPathLen)}

\* Path::components: RootDir ("/") first for an absolute path; a "." is a
\* component only at the beginning of a relative path
components(p) ==
    LET normal(c) == c # "."
    IN  IF p.comps = <<>> THEN IF p.root THEN <<"/">> ELSE <<>>
        ELSE IF p.root THEN <<"/">> \o SelectSeq(p.comps, normal)
        ELSE <<Head(p.comps)>> \o SelectSeq(Tail(p.comps), normal)

\* ".." is kept after the root as well
simplify_virtual_pathKeepParent(p) ==
    LET RECURSIVE walk(_, _)
        walk(cs, st) ==
            IF cs = <<>> THEN st
            ELSE LET comp == Head(cs)
                     stack == st.stack
                 IN  walk(Tail(cs),
                          IF comp = "/" THEN [root |-> TRUE, stack |-> <<>>]
                          ELSE IF comp = "." THEN st
                          ELSE IF comp = ".."
                          THEN IF stack # <<>> /\ stack[Len(stack)] # ".."
                               THEN [st EXCEPT !.stack = SubSeq(stack, 1, Len(stack) - 1)]
                               ELSE [st EXCEPT !.stack = Append(stack, comp)]
                          ELSE [st EXCEPT !.stack = Append(stack, comp)])
        end == walk(components(p), [root |-> FALSE, stack |-> <<>>])
    IN  [root |-> end.root, comps |-> end.stack]

\* simplify_virtual_path: `result` gets the root, `stack` the other
\* components; ".." pops a normal component, is kept on a relative path
\* when there is none to pop, and is dropped on an absolute path
simplify_virtual_path(p) ==
    LET is_absolute == p.root
        RECURSIVE walk(_, _)
        walk(cs, st) ==
            IF cs = <<>> THEN st
            ELSE LET comp == Head(cs)
                     stack == st.stack
                 IN  walk(Tail(cs),
                          IF comp = "/" THEN [root |-> TRUE, stack |-> <<>>]
                          ELSE IF comp = "." THEN st
                          ELSE IF comp = ".."
                          THEN IF stack # <<>> /\ stack[Len(stack)] # ".."
                               THEN [st EXCEPT !.stack = SubSeq(stack, 1, Len(stack) - 1)]
                               ELSE IF is_absolute THEN st
                               ELSE [st EXCEPT !.stack = Append(stack, comp)]
                          ELSE [st EXCEPT !.stack = Append(stack, comp)])
        end == walk(components(p), [root |-> FALSE, stack |-> <<>>])
    IN  [root |-> end.root, comps |-> end.stack]

\* a caller has one descriptor or one path in hand
InitFileSender ==
    /\ clock = 0
    /\ faults = {}
    /\ api_calls = [t \in Tasks |-> 0]
    /\ store = EmptyStore
    /\ task = [t \in Tasks |-> UnbornTask]
    /\ chan = [t \in Tasks |-> <<>>]
    /\ hist = [t \in Tasks |-> NoHist]
    /\ sent = 0
    /\ \/ \E d \in PathDescriptors :
             fs = [pc |-> "made", d |-> d, text |-> <<>>, back |-> [ok |-> FALSE, d |-> d]]
       \/ \E p \in VirtualPaths : fs = [pc |-> "path", p |-> p, out |-> p]
    /\ GIdle
    /\ EIdle
    /\ NoSnaps
    /\ HOff

otherVars == <<coreVars, sent, gVars, eVars, hVars>>

\* d.to_string()
FsToString ==
    /\ fs.pc = "made"
    /\ fs' = [fs EXCEPT !.pc = "shown", !.text = to_string(fs.d)]
    /\ UNCHANGED otherVars

\* PathDescriptor::from_str(&text)
FsFromStr ==
    /\ fs.pc = "shown"
    /\ fs' = [fs EXCEPT !.pc = "parsed", !.back = from_str(fs.text)]
    /\ UNCHANGED otherVars

\* simplify_virtual_path(&p)
FsSimplify ==
    /\ fs.pc = "path"
    /\ fs' = [fs EXCEPT !.pc = "simplified", !.out = simplify_virtual_path(fs.p)]
    /\ UNCHANGED otherVars

NextFileSender == FsToString \/ FsFromStr \/ FsSimplify

SpecFileSender == InitFileSender /\ [][NextFileSender]_allVars

\* ------------------------------------------------------- properties ------
ClipsAt(d, id) == {p \in Paths : p.camera = camera_name(id) /\ store[d][p] # Absent}

\* C1: once an upload-process of the task has completed successfully, every
\* destination holds at least one completely written clip of the review at
\* every later step.
C1_AlternatingNameGuarantee ==
    \A t \in Tasks : \A d \in DescNames :
        hist[t].ok_once => \E p \in ClipsAt(d, task[t].id) : IsComplete(store[d][p])

\* C2: when every API and destination operation has succeeded, then once the
\* upload-process of the k-th processed event (k = 0, 1, 2, ..) is Done,
\* each destination holds exactly one clip file of the review and its suffix
\* is -(k mod 2).
C2_SuffixAlternation ==
    \A t \in Tasks : \A d \in DescNames :
        (hist[t].clean /\ task[t].pc \in {"select", "ended"} /\ task[t].proc.state = "Done")
        => /\ Cardinality(ClipsAt(d, task[t].id)) = 1
           /\ \A p \in ClipsAt(d, task[t].id) : p.sfx = (hist[t].events - 1) % 2

\* C3: all paths the task writes or removes for its review differ at most in
\* the suffix -0 / -1, even when the wall clock advances between operations.
C3_StableClipName ==
    \A t \in Tasks : \A p, q \in hist[t].touched :
        p.camera = q.camera /\ p.ts = q.ts

Registered == {i \in Ids : ContainsKey(g.tasks_communicators, i)}
Handles == g.running_tasks \cup (IF g.awaiting = 0 THEN {} ELSE {g.awaiting})

C5_ManagerNeverAborts == g.pc # "panicked"

\* C6: an id leaves tasks_communicators only in the step that joins its
\* task, and while G is not stopped the id of every terminated task is
\* eventually removed.
C6_EvictionOnCompletion ==
    /\ [][\A i \in Ids :
            (ContainsKey(g.tasks_communicators, i) /\ ~ContainsKey(g'.tasks_communicators, i))
            => /\ task[g.tasks_communicators[i]].pc = "ended"
               /\ g.tasks_communicators[i] \in g.running_tasks
               /\ g.tasks_communicators[i] \notin g'.running_tasks]_allVars
    /\ \A t \in Tasks :
         (task[t].pc = "ended" /\ t \in Handles)
            ~> (g.tasks_communicators[task[t].id] # t \/ g.stopped)

\* C7: an End review delivered to a live task whose upload-process succeeds
\* ends the task with conclusion Done, and G then evicts the id so that the
\* task count no longer includes it.
C7_EndEvicts ==
    /\ [][\A t \in Tasks :
            (task[t].pc = "run" /\ task[t].ctx = "recv" /\ task[t].current_review = "end"
               /\ task'[t].pc # "run" /\ task'[t].proc.state = "Done")
            => (task'[t].pc = "ended" /\ task'[t].final_result = "Done")]_allVars
    /\ \A t \in Tasks :
         (task[t].pc = "ended" /\ task[t].final_result = "Done" /\ t \in Handles)
            ~> (g.tasks_communicators[task[t].id] # t /\ t \notin g.running_tasks)

\* C8: after Stop, run() does not return until every recording task of
\* running_tasks has terminated and been joined.
C8_StopDrainsRecordings ==
    g.pc = "returned" => (g.running_tasks = {} /\ \A t \in Tasks : task[t].pc \in {"unborn", "ended"})

\* C9: E's run() returns only after every snapshot task it has spawned has
\* finished and been joined, and a snapshot task leaves its run only by
\* finishing its upload attempt (it is never cancelled), also after Stop.
C9_SnapshotStopDrains ==
    /\ [](e.pc = "returned"
            => (e.running_tasks = {} /\ \A s \in Snaps : snap[s].pc \in {"unborn", "ended"}))
    /\ [][\A s \in Snaps :
            (snap[s].pc \in {"spawned", "run"} /\ snap'[s].pc \notin {"spawned", "run"})
            => /\ snap[s].pc = "run" /\ snap'[s].pc = "ended"
               /\ snap[s].op.senders = <<>>
               /\ \/ snap[s].op.remaining = <<>>
                  \/ snap[s].op.attempt >= Min(MAX_ATTEMPT_COUNT, MaxSnapRounds)]_allVars

\* E has returned after a Stop that it dequeued while a spawned snapshot task
\* had not finished, and that task's upload has reached a destination
C9_Witness ==
    /\ e.pc = "returned"
    /\ \E s \in e_out.unfinished_at_stop :
         /\ snap[s].pc = "ended"
         /\ \E d \in DescNames, p \in SnapPaths : snap_store[d][p] = s

\* C10: after a stop signal H has sent Stop to both handlers before it joins
\* them, start() returns Ok only when both handler tasks have terminated,
\* and start() eventually returns.
C10_Shutdown ==
    /\ [](h.pc \in {"join_g", "join_e", "returned"} => h.stops_sent = {"g", "e"})
    /\ [](h.pc = "returned" => (g.pc \in {"returned", "panicked"} /\ e.pc = "returned"))
    /\ (stop_chan > 0) ~> (h.pc = "returned")

\* the command that the step just taken has put on a command channel
NewCommands(q, q2) == IF Len(q2) > Len(q) THEN {q2[Len(q2)]} ELSE {}

\* C11: H puts a snapshot on E's channel only when the latest snapshots-state
\* event of the snapshot's camera was ON, and a review on G's channel only
\* when the latest recordings-state event of the review's camera was ON;
\* no file of a camera that was never switched on reaches a destination.
C11_PerCameraGating ==
    /\ [][\A c \in NewCommands(e_cmds, e_cmds') :
            c.kind = "Task" => h.last_snapshots_event[c.camera] = "on"]_allVars
    /\ [][\A c \in NewCommands(g_cmds, g_cmds') :
            c.kind = "Task" => h.last_recordings_event[camera_name(c.id)] = "on"]_allVars
    /\ [](\A d \in DescNames, p \in SnapPaths :
            snap_store[d][p] # Absent => p.camera \in h.snapshots_on_seen)
    /\ [](\A d \in DescNames, p \in Paths :
            store[d][p] # Absent => p.camera \in h.recordings_on_seen)

\* a review of a camera was forwarded and its clip stored while recordings
\* were on, the camera has been switched off since, and the other camera,
\* never switched on, has no file
C11_Witness ==
    \E c \in Cameras :
        /\ h.last_recordings_event[c] = "off"
        /\ \E d \in DescNames, p \in Paths : p.camera = c /\ IsComplete(store[d][p])
        /\ \A c2 \in Cameras \ {c} : h.last_recordings_event[c2] = "none"

\* C12: while the NVR's uptime is below delay_after_startup H puts no
\* snapshot and no review on a manager's channel, also for cameras whose
\* flags are on; the flags still follow the state events.
C12_UptimeGate ==
    /\ [][~h.nvr_uptime_reached =>
            /\ \A c \in NewCommands(e_cmds, e_cmds') : c.kind # "Task"
            /\ \A c \in NewCommands(g_cmds, g_cmds') : c.kind # "Task"]_allVars
    /\ [](\A c \in Cameras :
            /\ h.last_recordings_event[c] = "on" <=> camera_recordings_state(h, c)
            /\ h.last_snapshots_event[c] = "on" <=> camera_snapshots_state(h, c))

SeqToSet(q) == {q[i] : i \in 1..Len(q)}

\* C13: remote_file_op returns Ok exactly when the operation has succeeded at
\* every descriptor of its input list, which takes at most max_attempts
\* rounds; otherwise it returns an error after max_attempts rounds, and the
\* error lists exactly the descriptors at which it never succeeded.
C13_RemoteFileOpResult ==
    /\ [](\A s \in Snaps :
            /\ snap[s].op.attempt <= MaxAttemptsOf("snapshot")
            /\ snap[s].pc = "ended" =>
                 /\ snap[s].result = "ok" <=> snap[s].succeeded = DescNames
                 /\ snap[s].result = "err" =>
                      /\ SeqToSet(snap[s].failed) = DescNames \ snap[s].succeeded
                      /\ Len(snap[s].failed) = Cardinality(SeqToSet(snap[s].failed)))
    /\ [][\A s \in Snaps :
            (snap[s].pc = "run" /\ snap'[s].pc = "ended" /\ snap'[s].result = "err")
            => snap[s].op.attempt = MaxAttemptsOf("snapshot")]_allVars

\* one snapshot upload returned an error that lists a destination while
\* the other destination has the file, and another upload returned Ok after
\* a destination had failed in an earlier round
C13_Witness ==
    /\ \E s \in Snaps : snap[s].pc = "ended" /\ snap[s].result = "err"
                          /\ snap[s].failed = <<"A">> /\ snap[s].succeeded = {"B"}
    /\ \E s \in Snaps : snap[s].pc = "ended" /\ snap[s].result = "ok"

OpSenders(op) == {op.senders[i].d : i \in 1..Len(op.senders)}

\* C14: in a round of remote_file_op every pending destination is opened or
\* kept pending, every opened destination is operated on whatever happened
\* at the others, and a destination at which the operation has succeeded is
\* not operated on again in the same call.
C14_FailureIsolation ==
    /\ [](\A s \in Snaps :
            /\ (SeqToSet(snap[s].op.remaining) \cup OpSenders(snap[s].op)) \cap snap[s].op.done = {}
            /\ snap[s].pc = "run" =>
                  SeqToSet(snap[s].op.remaining) \cup OpSenders(snap[s].op) \cup snap[s].op.done
                     = DescNames)
    /\ [][\A s \in Snaps :
            (snap[s].pc = "run" /\ snap'[s].pc = "run" /\ snap'[s].op # snap[s].op)
            => IF snap[s].op.senders = <<>>
               THEN /\ SeqToSet(snap'[s].op.remaining) \cup OpSenders(snap'[s].op)
                          = SeqToSet(snap[s].op.remaining)
                    /\ snap'[s].op.done = snap[s].op.done
               ELSE /\ snap'[s].op.senders = Tail(snap[s].op.senders)
                    /\ \/ snap'[s].op.done = snap[s].op.done \cup {Head(snap[s].op.senders).d}
                       \/ /\ snap'[s].op.done = snap[s].op.done
                          /\ Head(snap[s].op.senders).d \in SeqToSet(snap'[s].op.remaining)
                    /\ snap'[s].op.attempt # snap[s].op.attempt => snap'[s].op.senders = <<>>]_allVars

\* in a round the first destination failed and the second one was still
\* served; in the next round only the failed one is operated on
C14_Witness ==
    \E s \in Snaps :
        /\ snap[s].pc = "run"
        /\ snap[s].op.attempt = 1
        /\ snap[s].op.done = {"B"}
        /\ OpSenders(snap[s].op) = {"A"}

Evicted(t) == t \notin g.running_tasks /\ g.tasks_communicators[task[t].id] # t

\* the review that made G launch task t is the only review the client has sent
OnlyReview(t) ==
    /\ task[t].pc # "unborn"
    /\ g_out.reviews_sent = [i \in Ids |-> IF i = task[t].id THEN 1 ELSE 0]

\* C15: when every run of the upload-process fails and no further review
\* arrives, a task with max_retry_attempts = N has run the
\* upload-process exactly 1 + N times when it ends, its conclusion is
\* NotDone, and G then evicts it.
C15_BudgetExhaustion ==
    /\ [](\A t \in Tasks :
            (task[t].pc = "ended" /\ ~hist[t].ok_once /\ OnlyReview(t))
            => /\ hist[t].runs = 1 + task[t].max_retry_attempts
               /\ task[t].final_result = "NotDone")
    /\ \A t \in Tasks :
         (task[t].pc = "ended" /\ ~hist[t].ok_once /\ OnlyReview(t))
            ~> (Evicted(t) \/ ~OnlyReview(t) \/ g.stopped)

RunReturned(t) == hist'[t].runs = hist[t].runs + 1

\* C16 as stated: retry_attempt increases by one exactly when a run of the
\* upload-process returns an error; a run that succeeds for a review that is
\* not of type End leaves it unchanged and the task continues.
C16_BudgetOnlyOnFailure ==
    [][\A t \in Tasks :
         /\ task'[t].retry_attempt \in {task[t].retry_attempt, task[t].retry_attempt + 1}
         /\ task'[t].retry_attempt = task[t].retry_attempt + 1
               <=> (RunReturned(t) /\ ~hist'[t].last_ok)
         /\ (RunReturned(t) /\ hist'[t].last_ok /\ task[t].current_review # "end")
               => task'[t].pc = "select"]_allVars

\* C16 as amended: retry_attempt increases by one exactly when a run made
\* inside the loop (for a received review or by the retry timer) concludes
\* NotDone, that is when it returns an error or succeeds for a review that
\* is not of type End; the run of the initial review never changes it; a
\* run that succeeds for a non-End review lets the task continue.
C16_BudgetOnNotDone ==
    [][\A t \in Tasks :
         /\ task'[t].retry_attempt \in {task[t].retry_attempt, task[t].retry_attempt + 1}
         /\ task'[t].retry_attempt = task[t].retry_attempt + 1
               <=> /\ RunReturned(t)
                   /\ task[t].ctx # "first"
                   /\ ~(hist'[t].last_ok /\ task[t].current_review = "end")
         /\ (RunReturned(t) /\ hist'[t].last_ok /\ task[t].current_review # "end")
               => task'[t].pc = "select"]_allVars

\* every run of a task has succeeded, its review is not End, one of its
\* attempts is used up and the task goes on waiting
C16_Witness ==
    \E t \in Tasks :
        /\ task[t].pc = "select"
        /\ hist[t].clean /\ hist[t].runs >= 2
        /\ task[t].current_review = "new"
        /\ task[t].retry_attempt >= 1

\* New was delivered through G, every operation of the task has succeeded
\* and no further review or Stop has arrived
QuietSuccess(t) ==
    /\ OnlyReview(t)
    /\ task[t].current_review = "new"
    /\ hist[t].clean
    /\ ~g.stopped

\* C17 as stated: the task has ended when at most max_retry_attempts retry
\* periods have passed, and G's task count returns to 0.
C17_NoEndTerminates ==
    /\ [](\A t \in Tasks :
            (task[t].pc = "ended" /\ QuietSuccess(t))
            => hist[t].periods <= task[t].max_retry_attempts)
    /\ \A t \in Tasks :
         QuietSuccess(t) ~> ((task[t].pc = "ended" /\ Evicted(t)) \/ ~QuietSuccess(t))

Max(a, b) == IF a > b THEN a ELSE b

\* C17 as amended: the task ends when its retry deadline has fired at most
\* max(1, max_retry_attempts) times (the deadline has to fire once for the
\* task to end, also with max_retry_attempts = 0), and G then evicts it so
\* that its task count returns to 0.
C17_NoEndTerminatesWithinBudget ==
    /\ [](\A t \in Tasks :
            (task[t].pc = "ended" /\ QuietSuccess(t))
            => hist[t].periods <= Max(1, task[t].max_retry_attempts))
    /\ [](\A t \in Tasks :
            (QuietSuccess(t) /\ hist[t].periods >= Max(1, task[t].max_retry_attempts))
            => task[t].pc = "ended")
    /\ \A t \in Tasks :
         QuietSuccess(t) ~> ((task[t].pc = "ended" /\ Evicted(t)) \/ ~QuietSuccess(t))

\* a task that got New only and whose uploads all succeeded has ended by its
\* retry deadline, G has evicted it and tracks no task
C17_Witness ==
    \E t \in Tasks :
        /\ task[t].pc = "ended" /\ QuietSuccess(t) /\ Evicted(t)
        /\ task[t].max_retry_attempts >= 1
        /\ hist[t].periods = task[t].max_retry_attempts
        /\ g.running_tasks = {} /\ g.pc = "loop"

\* C18: with max_retry_attempts = 0 a task whose first run of the
\* upload-process fails runs it no second time and ends with NotDone.
C18_ZeroBudget ==
    /\ [](\A t \in Tasks :
            (task[t].max_retry_attempts = 0 /\ ~hist[t].ok_once /\ OnlyReview(t))
            => /\ hist[t].runs <= 1
               /\ task[t].pc = "ended" => task[t].final_result = "NotDone")
    /\ \A t \in Tasks :
         (task[t].max_retry_attempts = 0 /\ hist[t].runs = 1 /\ ~hist[t].last_ok)
            ~> task[t].pc = "ended"


\* C19: a task whose review is of type End, some of whose runs have failed
\* and which has then ended with conclusion Done, leaves at each destination
\* exactly one clip file of the review, holding the clip fetched last.
C19_RetryAndRecovery ==
    \A t \in Tasks : \A d \in DescNames :
        (/\ task[t].pc = "ended" /\ task[t].final_result = "Done"
         /\ task[t].current_review = "end" /\ ~hist[t].clean)
        => /\ Cardinality(ClipsAt(d, task[t].id)) = 1
           /\ \A p \in ClipsAt(d, task[t].id) : store[d][p] = task[t].proc.clip


\* the clip files of task t's review at d under the suffix that the current
\* version is not written to
AltClipsAt(t, d) ==
    {p \in ClipsAt(d, task[t].id) :
        p.sfx # alternative_name_suffix(task[t].proc.alternative_upload, FALSE)}

\* C20: when the task takes up a further version of its review, then at
\* every destination where the Upload of the version before has succeeded
\* the alternate file is absent or DeleteIfExists has acted on it there,
\* also when the upload keeps failing at another destination.
C20_AlternateDeleted ==
    [][\A t \in Tasks :
         (hist[t].events >= 1 /\ hist'[t].events = hist[t].events + 1)
         => \A d \in hist[t].uploaded : \A p \in AltClipsAt(t, d) :
                [d |-> d, p |-> p] \in hist[t].del_tried]_allVars

\* task t has nothing left to do: it waits in its loop with an empty channel
\* and G is not about to send it a review
TaskIdle(t) ==
    /\ task[t].pc = "select"
    /\ chan[t] = <<>>
    /\ g.awaiting # t

\* C21: with every operation succeeding and no retry deadline fired, a task
\* has fetched at most one clip per Task command sent for its id, and once
\* the New review alone has been fully handled each destination holds only
\* the -0 file of the review.
C21_OneRunPerReview ==
    \A t \in Tasks :
        (task[t].pc # "unborn" /\ hist[t].clean /\ hist[t].periods = 0)
        => /\ api_calls[t] <= g_out.reviews_sent[task[t].id]
           /\ (OnlyReview(t) /\ TaskIdle(t) /\ task[t].current_review = "new")
              => \A d \in DescNames :
                    /\ ClipsAt(d, task[t].id) # {}
                    /\ \A p \in ClipsAt(d, task[t].id) : p.sfx = 0

\* C22: a GetTaskCount command that the client issues after the ack of a
\* Task command with an End review for a tracked id (all uploads succeeding)
\* is answered with a count that does not include that id's task.
C22_CountAfterEndAck ==
    [][\A n \in 1..MaxAwaitCmds : \A k \in 0..MaxTasks :
         (<<n, k>> \in g_out'.counts /\ <<n, k>> \notin g_out.counts)
         => k <= Cardinality(g.running_tasks \ g_out.end_acked)]_allVars

Spawned(s) == snap[s].pc # "unborn"

\* C23: E spawns exactly one snapshot task for each Task command it
\* processes, with the command's confirmation; a snapshot task never makes
\* more than MAX_ATTEMPT_COUNT rounds and always finishes, whether or not an
\* upload succeeded; the confirmation, when there is one, is signalled once,
\* by the step that ends the task's upload attempt, and never before.
C23_SnapshotTaskOnce ==
    /\ [][(e_cmds # <<>> /\ e_cmds' = Tail(e_cmds) /\ Head(e_cmds).kind = "Task")
            => \E s \in Snaps :
                 /\ ~Spawned(s) /\ snap'[s].pc = "spawned"
                 /\ snap'[s].confirm = Head(e_cmds).confirm
                 /\ snap'[s].camera = Head(e_cmds).camera
                 /\ \A u \in Snaps \ {s} : snap'[u] = snap[u]]_allVars
    /\ [](\A s \in Snaps : snap[s].op.attempt <= Min(MAX_ATTEMPT_COUNT, MaxSnapRounds))
    /\ [](\A n \in e_out.acks : \E s \in Snaps : snap[s].confirm = n /\ snap[s].pc = "ended")
    /\ [](\A s \in Snaps : (snap[s].pc = "ended" /\ snap[s].confirm # 0)
                              => snap[s].confirm \in e_out.acks)
    /\ [][\A n \in e_out'.acks \ e_out.acks :
            /\ e_out'.acks = e_out.acks \cup {n}
            /\ \E s \in Snaps : snap[s].confirm = n /\ snap[s].pc = "run"
                                /\ snap'[s].pc = "ended"]_allVars
    /\ \A s \in Snaps : Spawned(s) ~> snap[s].pc = "ended"

\* a snapshot task has used up its rounds without a single successful
\* upload and has signalled its confirmation, while another task that was
\* spawned with a confirmation has not yet finished
C23_Witness ==
    \E s, u \in Snaps :
        /\ snap[s].pc = "ended" /\ snap[s].result = "err" /\ snap[s].succeeded = {}
        /\ snap[s].confirm \in e_out.acks
        /\ snap[u].pc = "spawned" /\ snap[u].confirm # 0 /\ snap[u].confirm \notin e_out.acks

\* the Task command whose review G is about to put on a task's channel
RoutedCmd == IF g.pc = "await_first" THEN g.pending ELSE Head(g_cmds)

\* C24: G handles the commands in arrival order (a command that still waits
\* is younger than every acknowledged one); the step that signals the ack
\* of Task(review) has put that review at the tail of the channel of the
\* task registered for its id; a task's channel changes only by such an
\* append or by the task taking its head, so the reviews of an id reach its
\* task in the order G received them.
C24_ArrivalOrder ==
    /\ [](\A n \in g_out.acks :
            /\ \A i \in 1..Len(g_cmds) : g_cmds[i].n > n
            /\ g.pending.kind = "Task" => g.pending.n > n)
    /\ [][\A n \in g_out'.acks \ g_out.acks :
            /\ RoutedCmd.n = n /\ RoutedCmd.kind = "Task"
            /\ \E t \in Tasks :
                 /\ g'.tasks_communicators[RoutedCmd.id] = t
                 /\ task[t].id = RoutedCmd.id
                 /\ chan'[t] = Append(chan[t], RoutedCmd.type)]_allVars
    /\ [][\A t \in Tasks :
            chan'[t] # chan[t]
            => IF Len(chan'[t]) < Len(chan[t])
               THEN chan'[t] = Tail(chan[t]) /\ task'[t].current_review = Head(chan[t])
               ELSE /\ g.pc = "await_first" \/ g_cmds # <<>>
                    /\ chan'[t] = Append(chan[t], RoutedCmd.type)
                    /\ task[t].id = RoutedCmd.id]_allVars

\* two Task commands of one id have been acknowledged and their reviews
\* wait on the task's channel in the order of the commands
C24_Witness ==
    \E t \in Tasks :
        /\ Cardinality(g_out.acks) = 2
        /\ g_out.reviews_sent[task[t].id] = 2
        /\ chan[t] = <<"new", "end">>

\* C25 as stated: parsing the text that Display produces for a descriptor
\* yields that descriptor, for every descriptor that can be constructed.
C25_DescriptorRoundTrip ==
    fs.pc = "parsed" => fs.back.ok /\ fs.back.d = fs.d

\* C25 as amended: parsing the displayed text yields the descriptor exactly
\* for the descriptors whose identity, if any, is on disk, whose field
\* values contain no ';' and do not end with white space, and whose host
\* has a valid port after its ':' if it has one; for every other
\* descriptor the parse fails or yields a different descriptor.
C25_RoundTripOfParsable ==
    LET Plain(v) == Find(v, ";") = 0 /\ trim_end(v) = v
        d == fs.d
        Parsable ==
            IF d.kind = "Local" THEN Plain(d.path)
            ELSE /\ Plain(d.username) /\ Plain(d.remote_address) /\ Plain(d.remote_path)
                 /\ Find(d.remote_address, ":") # 0
                       => IsPort(After(d.remote_address, Find(d.remote_address, ":")))
                 /\ d.identity.src = "OnDisk" /\ Plain(d.identity.v)
    IN  fs.pc = "parsed" => ((fs.back.ok /\ fs.back.d = d) <=> Parsable)

\* an Sftp descriptor with a port and a value that begins with a blank has
\* been displayed and parsed back
C25_Witness ==
    /\ fs.pc = "parsed"
    /\ fs.d.kind = "Sftp" /\ fs.d.username = <<" ", "a">>
    /\ fs.d.remote_address = <<"a", ":", "7">>
    /\ fs.back.ok /\ fs.back.d = fs.d

\* C26: the result of simplify_virtual_path has no "." component and no
\* ".." after a normal component, and for an absolute path it is absolute
\* and has no ".." at all.
C26_SimplifiedPath ==
    fs.pc = "simplified" =>
        LET out == fs.out.comps
        IN  /\ \A i \in 1..Len(out) : out[i] # "."
            /\ \A i, j \in 1..Len(out) : i < j /\ out[j] = ".." => out[i] = ".."
            /\ fs.p.root => fs.out.root /\ \A i \in 1..Len(out) : out[i] # ".."

\* "/a/../../b" has been simplified to "/b"
C26_Witness ==
    /\ fs.pc = "simplified"
    /\ fs.p = [root |-> TRUE, comps |-> <<"a", "..", "..", "b">>]
    /\ fs.out = [root |-> TRUE, comps |-> <<"b">>]

C28_InitFailureIsOpFailure ==
    [][\A t \in Tasks :
          LET op == task[t].op IN
          op.senders # <<>> /\ task'[t] # task[t] /\ ~Head(op.senders).init_ok
             => /\ store' = store
                /\ \E i \in DOMAIN task'[t].op.remaining :
                      task'[t].op.remaining[i] = Head(op.senders).d]_allVars

\* C29 as stated: at every round of remote_file_op the senders are in the
\* order of the descriptor list, and so are the pending descriptors.
C29_OrderPreserved ==
    \A t \in Tasks :
        LET op == task[t].op
            pos(d) == CHOOSE i \in DOMAIN Descriptors : Descriptors[i] = d
        IN  task[t].pc = "run" /\ op.kind \in {"upload", "delete"}
               => /\ \A i, j \in DOMAIN op.senders :
                        i < j => pos(op.senders[i].d) < pos(op.senders[j].d)
                  /\ op.senders = <<>>
                        => \A i, j \in DOMAIN op.remaining :
                              i < j => pos(op.remaining[i]) < pos(op.remaining[j])

\* C29 as amended: a round processes the senders it could make in the
\* order of its pending list; the pending list of the next round is made of
\* the descriptors that could not be instantiated, in the order they had,
\* followed by the descriptors whose operation failed, in the order in
\* which they were processed.
C29_OrderWithinKinds ==
    [][\A t \in Tasks :
          LET op == task[t].op
              op2 == task'[t].op
              pos(d) == CHOOSE i \in DOMAIN op.remaining : op.remaining[i] = d
              sent_to == [i \in DOMAIN op2.senders |-> op2.senders[i].d]
              Sub(q) == /\ \A i \in DOMAIN q : \E k \in DOMAIN op.remaining : op.remaining[k] = q[i]
                        /\ \A i, j \in DOMAIN q : i < j => pos(q[i]) < pos(q[j])
          IN  /\ task[t].pc = "run" /\ task'[t].pc = "run" /\ op.senders = <<>>
                 /\ op2.kind = op.kind /\ op2 # op
                    => /\ Sub(sent_to) /\ Sub(op2.remaining)
                       /\ Len(sent_to) + Len(op2.remaining) = Len(op.remaining)
              /\ op.senders # <<>> /\ task'[t] # task[t]
                    => /\ op2.senders = Tail(op.senders)
                       /\ op2.remaining = (IF hist'[t].last_call.ok THEN op.remaining
                                           ELSE Append(op.remaining, Head(op.senders).d))]_allVars

\* the operation failed at A, B could not be instantiated: B is now ahead
\* of A in the pending list
C29_Witness ==
    \E t \in Tasks :
        /\ task[t].pc = "run" /\ task[t].op.senders = <<>>
        /\ task[t].op.remaining = <<"B", "A">>

\* C30: upload_file_inner calls mkdir_p first and put_from_memory only if
\* mkdir_p succeeded; the destination is done only if both succeeded, else
\* it is pending again, and it is a sender again only when a new round has
\* instantiated it.
C30_UploadAtOneDestination ==
    [][\A t \in Tasks :
          LET op == task[t].op
              op2 == task'[t].op
              d == Head(op.senders).d
              lc == hist'[t].last_call
              pending == {op2.remaining[i] : i \in DOMAIN op2.remaining}
          IN  /\ op.kind = "upload" /\ op.senders # <<>> /\ task'[t] # task[t]
                    => /\ lc.kind = "upload" /\ lc.d = d
                       /\ lc.first \in {"ok", "err"}
                       /\ lc.second # "none" <=> lc.first = "ok"
                       /\ lc.first = "err" => store' = store
                       /\ d \in op2.done <=> lc.first = "ok" /\ lc.second = "ok"
                       /\ d \in pending <=> ~(lc.first = "ok" /\ lc.second = "ok")
                       /\ \A i \in DOMAIN op2.senders : op2.senders[i].d # d
              /\ op.kind = "upload" /\ op2.kind = "upload" /\ op2.senders # <<>>
                 /\ op.senders # <<>>
                    => \A i \in DOMAIN op2.senders :
                          \E k \in DOMAIN op.senders : op.senders[k] = op2.senders[i]]_allVars

\* mkdir_p has failed at a destination: put_from_memory was not called and
\* the destination is pending for the next round
C30_Witness ==
    \E t \in Tasks :
        /\ hist[t].last_call.kind = "upload"
        /\ hist[t].last_call.first = "err" /\ hist[t].last_call.second = "none"
        /\ task[t].op.kind = "upload" /\ task[t].op.attempt < MAX_UPLOAD_ATTEMPTS
        /\ \E i \in DOMAIN task[t].op.remaining :
              task[t].op.remaining[i] = hist[t].last_call.d

\* C31: delete_file_inner at one destination: when file_exists answers
\* false the operation succeeds, del_file is not called and the files are
\* unchanged; when it answers true del_file is called and its result is
\* the result of the operation.
C31_DeleteIfExists ==
    [][\A t \in Tasks :
          LET op == task[t].op
              d == Head(op.senders).d
              path == task[t].proc.alt_path
              lc == hist'[t].last_call
          IN  op.kind = "delete" /\ op.senders # <<>> /\ task'[t] # task[t]
              /\ lc.first = "ok"
                 => /\ lc.kind = "delete" /\ lc.d = d
                    /\ IF store[d][path] = Absent
                       THEN /\ lc.ok /\ lc.second = "none"
                            /\ store' = store
                            /\ d \in task'[t].op.done
                       ELSE /\ lc.second \in {"ok", "err"}
                            /\ lc.ok <=> lc.second = "ok"
                            /\ d \in task'[t].op.done <=> lc.second = "ok"
                            /\ store' = IF lc.second = "ok"
                                        THEN [store EXCEPT ![d][path] = Absent]
                                        ELSE store]_allVars

\* the alternative file was there and del_file has removed it
C31_Witness ==
    \E t \in Tasks :
        /\ hist[t].last_call.kind = "delete"
        /\ hist[t].last_call.first = "ok" /\ hist[t].last_call.second = "ok"
        /\ task[t].op.kind = "delete" /\ hist[t].last_call.d \in task[t].op.done
        /\ store[hist[t].last_call.d][task[t].proc.alt_path] = Absent

\* C32: within one ReviewUpload the states are visited in the order Start,
\* GettingVideoFromAPI, UploadToStore, DeleteTheAlternative, Done; the
\* process enters DeleteTheAlternative only when the Upload has succeeded at
\* every destination in that run, and file_exists / del_file are issued
\* only in that state, so never in a run whose Upload failed.
C32_StepOrder ==
    [][\A t \in Tasks :
          LET rank(st) == CASE st = "Start" -> 1
                            [] st = "GettingVideoFromAPI" -> 2
                            [] st = "UploadToStore" -> 3
                            [] st = "DeleteTheAlternative" -> 4
                            [] st = "Done" -> 5
                            [] OTHER -> 0
              before == task[t].proc.state
              after == task'[t].proc.state
          IN  /\ hist'[t].events = hist[t].events /\ task[t].pc # "unborn"
                    => rank(before) <= rank(after)
              /\ before # "DeleteTheAlternative" /\ after = "DeleteTheAlternative"
                    => /\ before = "UploadToStore"
                       /\ task[t].op.kind = "upload"
                       /\ task[t].op.done = DescNames /\ task[t].op.remaining = <<>>
                       /\ hist[t].uploaded = DescNames
                       /\ hist[t].del_tried = {}
              /\ hist'[t].events = hist[t].events
                 /\ \/ hist'[t].del_tried # hist[t].del_tried
                    \/ /\ hist'[t].last_call # hist[t].last_call
                       /\ hist'[t].last_call.kind = "delete"
                    => /\ before = "DeleteTheAlternative"
                       /\ hist[t].uploaded = DescNames
              /\ task[t].pc = "run" /\ task'[t].pc # "run" /\ before = "UploadToStore"
                    => hist'[t].del_tried = {} /\ ~hist'[t].last_ok]_allVars

\* a run has failed in UploadToStore after the clip was stored at one
\* destination: no deletion was issued
C32_Witness ==
    \E t \in Tasks :
        /\ task[t].pc = "select" /\ task[t].proc.state = "UploadToStore"
        /\ hist[t].uploaded # {} /\ hist[t].del_tried = {}
        /\ hist[t].events > 1

\* C33: a run that fails in UploadToStore fails with error kind
\* RecordingUpload, a run that fails in DeleteTheAlternative fails with
\* error kind DeletingAltFile, and the process stays at the failed step.
C33_ErrorKinds ==
    \A t \in Tasks :
        task[t].pc \in {"select", "ended"} /\ task[t].last_error # "none"
           => /\ task[t].proc.state = "UploadToStore"
                    => task[t].last_error = "RecordingUpload"
              /\ task[t].proc.state = "DeleteTheAlternative"
                    => task[t].last_error = "DeletingAltFile"
              /\ task[t].last_error = "RecordingUpload"
                    => task[t].proc.state = "UploadToStore"
              /\ task[t].last_error = "DeletingAltFile"
                    => task[t].proc.state = "DeleteTheAlternative"

\* C34: a re-run by the retry timer resumes the upload process in the state
\* in which the previous run failed and enters the Upload (or the delete)
\* with all destinations pending and attempt 0; once the clip of the current
\* version has been fetched the API is not called again; a failed Upload has
\* made MAX_UPLOAD_ATTEMPTS rounds.  So a task with budget N whose first API
\* call failed and whose Upload never succeeded ends after 2 API calls and
\* N + 1 runs, N of them failed Uploads.
C34_ResumptionOnRetry ==
    /\ [][\A t \in Tasks :
             /\ task[t].pc = "select" /\ task'[t].pc = "run"
                /\ hist'[t].events = hist[t].events
                   => /\ task'[t].proc = task[t].proc
                      /\ task[t].proc.state = "UploadToStore"
                            => task'[t].op = NewOp("upload")
                      /\ task[t].proc.state = "DeleteTheAlternative"
                            => task'[t].op = NewOp("delete")
             /\ hist'[t].events = hist[t].events
                /\ task[t].proc.state \in {"UploadToStore", "DeleteTheAlternative", "Done"}
                   => api_calls'[t] = api_calls[t]
             /\ task[t].pc = "run" /\ task'[t].pc # "run"
                /\ task[t].proc.state = "UploadToStore"
                   => /\ task[t].op.attempt = MAX_UPLOAD_ATTEMPTS
                      /\ task'[t].proc.state = "UploadToStore"]_allVars
    /\ [](\A t \in Tasks :
             task[t].pc = "ended" /\ hist[t].events = 1
             /\ task[t].proc.state = "UploadToStore" /\ task[t].proc.clip = 2
                => /\ api_calls[t] = 2
                   /\ hist[t].runs = task[t].max_retry_attempts + 1
                   /\ task[t].final_result = "NotDone")

\* the first API call failed, the retry fetched the clip and its Upload
\* failed, and the task has ended NotDone
C34_Witness ==
    \E t \in Tasks :
        /\ task[t].pc = "ended" /\ hist[t].events = 1
        /\ task[t].proc.state = "UploadToStore" /\ task[t].proc.clip = 2
        /\ api_calls[t] = 2 /\ task[t].final_result = "NotDone"

\* C35: H changes the recordings flag of a camera only when it handles a
\* recordings-state event for that camera, which changes no other entry of
\* either map; likewise for the snapshots flag; a step in which H forwards
\* a snapshot or a review changes no entry; no other step changes the maps.
C35_CameraStateFrame ==
    [][LET rec == h.cameras_recordings_state
           rec2 == h'.cameras_recordings_state
           snp == h.cameras_snapshots_state
           snp2 == h'.cameras_snapshots_state
       IN  /\ \A c \in Cameras :
                 rec2[c] # rec[c]
                    => /\ h'.received = h.received + 1
                       /\ h'.last_recordings_event[c] = (IF rec2[c] = "true" THEN "on" ELSE "off")
                       /\ \A o \in Cameras \ {c} : rec2[o] = rec[o]
                       /\ snp2 = snp
                       /\ g_cmds' = g_cmds /\ e_cmds' = e_cmds
           /\ \A c \in Cameras :
                 snp2[c] # snp[c]
                    => /\ h'.received = h.received + 1
                       /\ h'.last_snapshots_event[c] = (IF snp2[c] = "true" THEN "on" ELSE "off")
                       /\ \A o \in Cameras \ {c} : snp2[o] = snp[o]
                       /\ rec2 = rec
                       /\ g_cmds' = g_cmds /\ e_cmds' = e_cmds
           /\ h'.last_recordings_event # h.last_recordings_event => snp2 = snp
           /\ h'.last_snapshots_event # h.last_snapshots_event => rec2 = rec]_allVars

\* recordings were switched on for c1 and snapshots for c2, and a third
\* event was handled: the other entries are still absent
C35_Witness ==
    /\ h.cameras_recordings_state = [c \in Cameras |-> IF c = "c1" THEN "true" ELSE "absent"]
    /\ h.cameras_snapshots_state = [c \in Cameras |-> IF c = "c2" THEN "true" ELSE "absent"]
    /\ h.received >= 3

\* C36: a launched task signals 'first review resolved' once, in the step in
\* which the upload-process run for its initial review returns, whether with
\* Ok or with an error, and never withdraws it; while G awaits the signal it
\* neither registers the handle or the sender nor takes a command from its
\* channel, answers one or joins a task, and the step that ends the wait
\* registers both
C36_LaunchHandshake ==
    /\ [][\A t \in Tasks :
            /\ task[t].first_resolved => task'[t].first_resolved
            /\ (~task[t].first_resolved /\ task'[t].first_resolved)
                 => /\ task[t].pc = "run" /\ task[t].ctx = "first"
                    /\ task'[t].pc = "select"
                    /\ hist'[t].runs = 1
            /\ (task[t].ctx = "first" /\ task'[t].ctx # "first")
                 => ~task[t].first_resolved /\ task'[t].first_resolved]_allVars
    /\ [][g.pc = "await_first" =>
            IF task[g.awaiting].first_resolved
            THEN g' # g => /\ g.awaiting \in g'.running_tasks
                           /\ g'.tasks_communicators[g.pending.id] = g.awaiting
                           /\ g_cmds' = g_cmds
            ELSE /\ g' = g
                 /\ g_out'.acks = g_out.acks /\ g_out'.counts = g_out.counts
                 /\ Len(g_cmds') >= Len(g_cmds)]_allVars
    /\ [](g.pc = "await_first" =>
            /\ g.awaiting \notin g.running_tasks
            /\ ~ContainsKey(g.tasks_communicators, g.pending.id)
            /\ task[g.awaiting].pc # "unborn")
    /\ [](\A t \in Tasks : t \in g.running_tasks => task[t].first_resolved)

\* G has registered a task whose initial attempt returned an error
C36_Witness ==
    \E t \in Tasks :
        /\ t \in g.running_tasks
        /\ g.tasks_communicators[task[t].id] = t
        /\ task[t].first_resolved
        /\ hist[t].runs = 1 /\ ~hist[t].last_ok

\* C37: alternative_upload changes only in the step in which a run completes
\* the deletion of the alternative after its clip was stored, and a retry
\* timer that fires on a process already in state Done calls neither the API
\* nor a destination and leaves alternative_upload as it was
C37_FlipOnlyAfterStore ==
    [][\A t \in Tasks :
         /\ task'[t].alternative_upload # task[t].alternative_upload
              => /\ task[t].pc = "run"
                 /\ task[t].proc.state = "DeleteTheAlternative"
                 /\ task'[t].proc.state = "Done"
                 /\ hist[t].uploaded = DescNames
         /\ (task[t].pc = "select" /\ task[t].proc.state = "Done"
               /\ hist'[t].periods = hist[t].periods + 1)
              => /\ api_calls'[t] = api_calls[t]
                 /\ store' = store
                 /\ task'[t].alternative_upload = task[t].alternative_upload]_allVars

\* C38: a task ends with conclusion NotDone only in a step of its retry timer
\* that finds retry_attempt >= max_retry_attempts; a step that receives a
\* review starts a run and a run ends the task only with conclusion Done;
\* the timer examines the budget only when retry_duration has elapsed since
\* the loop was last entered, that is since the latest run returned
C38_NotDoneOnlyByBudget ==
    /\ [][\A t \in Tasks :
            (task[t].pc # "ended" /\ task'[t].pc = "ended"
               /\ task'[t].final_result = "NotDone")
              => /\ task[t].pc = "select"
                 /\ hist'[t].periods = hist[t].periods + 1
                 /\ chan'[t] = chan[t]
                 /\ task[t].retry_attempt >= task[t].max_retry_attempts]_allVars
    /\ [][\A t \in Tasks :
            (task[t].pc = "select" /\ Len(chan'[t]) < Len(chan[t]))
              => /\ task'[t].pc = "run"
                 /\ task'[t].retry_attempt = task[t].retry_attempt]_allVars
    /\ [][\A t \in Tasks :
            (task[t].pc = "run" /\ task'[t].pc = "ended")
              => task'[t].final_result = "Done"]_allVars
    /\ [][\A t \in Tasks :
            hist'[t].periods # hist[t].periods
              => /\ task[t].pc = "select"
                 /\ clock >= hist[t].looped_at + retry_duration
                 /\ hist'[t].events = hist[t].events]_allVars

\* a task received a further review with its budget used up, went on, and
\* ended with NotDone when the deadline armed after that review fired
C38_Witness ==
    \E t \in Tasks :
        /\ task[t].pc = "ended" /\ task[t].final_result = "NotDone"
        /\ task[t].max_retry_attempts >= 1
        /\ task[t].retry_attempt > task[t].max_retry_attempts
        /\ hist[t].events >= 2
        /\ hist[t].periods = 1
        /\ clock >= hist[t].looped_at + retry_duration

\* C39: once G or E has dequeued Stop, it takes no further command from its
\* channel, spawns no task, and answers nothing new: a command that is queued
\* behind Stop is never acknowledged and its count is never sent
C39_NothingAfterStop ==
    /\ [][g.stopped =>
            /\ Len(g_cmds') >= Len(g_cmds)
            /\ \A t \in Tasks : task[t].pc = "unborn" => task'[t].pc = "unborn"
            /\ g_out'.acks = g_out.acks
            /\ g_out'.counts = g_out.counts]_allVars
    /\ [][e.stopped =>
            /\ Len(e_cmds') >= Len(e_cmds)
            /\ \A s \in Snaps : snap[s].pc = "unborn" => snap'[s].pc = "unborn"
            /\ e_out'.counts = e_out.counts]_allVars
    /\ [](g.stopped =>
            \A i \in DOMAIN g_cmds :
                /\ g_cmds[i].n \notin g_out.acks
                /\ \A k \in 0..MaxTasks : <<g_cmds[i].n, k>> \notin g_out.counts)
    /\ [](e.stopped =>
            \A i \in DOMAIN e_cmds :
                /\ e_cmds[i].n \notin e_out.acks
                /\ \A k \in 0..MaxSnapshots : <<e_cmds[i].n, k>> \notin e_out.counts)

\* G has dequeued Stop and returned while a Task command sits behind it:
\* no task was spawned and no ack signalled
C39_Witness ==
    /\ g.stopped
    /\ g.pc = "returned"
    /\ g_cmds # <<>>
    /\ Head(g_cmds).kind = "Task"
    /\ Head(g_cmds).confirm
    /\ \A t \in Tasks : task[t].pc = "unborn"
    /\ g_out.acks = {}

\* an End review of the task's id is held by the task, queued for it, or on
\* its way through G
EndInFlight(t) ==
    \/ task[t].current_review = "end"
    \/ \E i \in DOMAIN chan[t] : chan[t][i] = "end"
    \/ \E i \in DOMAIN g_cmds :
         g_cmds[i].kind = "Task" /\ g_cmds[i].id = task[t].id /\ g_cmds[i].type = "end"
    \/ g.pc = "await_first" /\ g.pending.id = task[t].id /\ g.pending.type = "end"

\* C40: H puts a review on G's channel only if the recordings flag of its
\* camera is on when the review is handled, also when a task of the review's
\* id is running; while the flag is off, no End review of that id comes into
\* the reach of a running task that has none, and such a task ends only in a
\* step of its retry timer that finds the budget used up, with NotDone
C40_GateIgnoresLiveTasks ==
    /\ [][\A c \in NewCommands(g_cmds, g_cmds') :
            c.kind = "Task" => camera_recordings_state(h, camera_name(c.id))]_allVars
    /\ [][\A i \in Ids :
            (LiveTask(i) /\ ~camera_recordings_state(h, camera_name(i)))
              => \A c \in NewCommands(g_cmds, g_cmds') : c.kind = "Stop" \/ c.id # i]_allVars
    /\ [][\A t \in Tasks :
            (/\ task[t].pc \notin {"unborn", "ended"}
             /\ ~camera_recordings_state(h, camera_name(task[t].id))
             /\ ~EndInFlight(t))
              => /\ ~EndInFlight(t)'
                 /\ task'[t].pc = "ended"
                      => /\ task[t].pc = "select"
                         /\ BudgetExhausted(task[t])
                         /\ hist'[t].periods = hist[t].periods + 1
                         /\ task'[t].final_result = "NotDone"]_allVars

\* recordings were switched off for c1 while the task of r1 was running, a
\* later review of r1 was ignored, and the task ended through its budget
C40_Witness ==
    \E t \in Tasks :
        /\ task[t].id = "r1"
        /\ task[t].pc = "ended"
        /\ task[t].final_result = "NotDone"
        /\ task[t].retry_attempt >= task[t].max_retry_attempts
        /\ h.ignored_live
        /\ ~camera_recordings_state(h, "c1")
        /\ h.last_recordings_event["c1"] = "off"

====
